---- MODULE Spec2Model ----
(***************************************************************************)
(* A model of the AppleTV device facade of appletv-node                    *)
(* (src/src/lib/appletv.ts, src/src/lib/typed-events.ts): its event        *)
(* emitter with the newListener/removeListener hooks that drive the        *)
(* playback-queue polling timer, the fan-out of inbound messages, key      *)
(* commands, messageOfType and the connection life cycle it observes.      *)
(*                                                                         *)
(* Time is a virtual clock in seconds.  A timer fires when the clock has   *)
(* reached its due time; the clock moves on only when no timer is due.     *)
(***************************************************************************)
EXTENDS Integers, Sequences, FiniteSets, TLC

VARIABLES
    listeners,       \* EventEmitter._events of the device: event -> list of listeners
    queuePollTimer,  \* the closure variable queuePollTimer: None or an interval timer
    now,             \* the virtual clock, in seconds
    connState,       \* the connection: "idle" (never opened), "open", "closed"
    openedAt,        \* the time the connection was last opened
    lastInbound,     \* the connection event the device handled last
    emitted,         \* the events the device emitted while handling lastInbound
    nextUuid,        \* the number of uuid() values drawn so far
    sendCalls,       \* the sendMessage calls made so far, in call order
    outbound,        \* the messages handed to connection.send, in hand-over order
    keyCmds,         \* the sendKeyCommand calls made so far
    waiters,         \* the messageOfType calls made so far
    callerCredentials, \* the Credentials object the caller owns and passes to openConnection
    credentials,     \* the field credentials of the device: None or a reference to the caller's object
    pairingId,       \* the field pairingId of the device
    opens,           \* the openConnection calls made so far
    callbacks,       \* the pending-callback table of the connection, in registration order
    writeCount,      \* the write nonce counter of the session keys
    pairing,         \* the pairing in progress
    build,           \* the build that runs: the TypeScript source or the compiled dist
    service,         \* the service the constructor was given
    address          \* the field address of the device

\* what construction fixes: the build, the service and the address
deviceVars == <<build, service, address>>

\* the state of a session: credentials, open calls, waited sends
sessionVars == <<callerCredentials, credentials, pairingId, opens, callbacks,
                 writeCount>>

vars == <<listeners, queuePollTimer, now, connState, openedAt, lastInbound,
          emitted, nextUuid, sendCalls, outbound, keyCmds, waiters,
          sessionVars, pairing, deviceVars>>

\* null or undefined is the empty sequence, a value v that is present is <<v>>
None == <<>>
Some(v) == <<v>>

----------------------------------------------------------------------------
(* Bounds of the model *)

MaxListeners == 2     \* listeners one event holds at most
MaxTime == 12         \* the clock stops here
MaxCommands == 1      \* entries of an inbound supportedCommands list at most
MaxKeyCmds == 1       \* sendKeyCommand calls at most
MaxHoldTime == 1      \* the clock stops here while key commands are studied
MaxWaiters == 1       \* messageOfType calls at most
MaxTimeout == 2       \* the longest messageOfType timeout, in seconds
MaxWaitTime == 3      \* the clock stops here while messageOfType is studied

(* Program constants *)

PollInterval == 5     \* setInterval(..., 5000), in seconds
HoldDelay == 1        \* delay(1000), in seconds

----------------------------------------------------------------------------
(* The event emitter of the device (TypedEventEmitter over Node's          *)
(* EventEmitter).  A listener is [fn, once]; the two hooks the constructor *)
(* installs are listeners like any other.                                  *)

PollEvents == {"nowPlaying", "supportedCommands"}
UserEvents == {"nowPlaying", "supportedCommands", "message"}
HookEvents == {"newListener", "removeListener"}
Events == UserEvents \cup HookEvents

UserFns == {"f"}

HookNew == [fn |-> "newListenerHook", once |-> FALSE]
HookRemove == [fn |-> "removeListenerHook", once |-> FALSE]

\* EventEmitter.listenerCount
listenerCount(ls, event) == Len(ls[event])

pollListenerCount(ls) ==
    listenerCount(ls, "nowPlaying") + listenerCount(ls, "supportedCommands")

HasListener(ls, event, l) == \E i \in 1..Len(ls[event]) : ls[event][i] = l

\* setInterval(callback, 5000) called at the current time
NewPollTimer == Some([start |-> now, due |-> now + PollInterval])

\* the 'newListener' handler of the constructor
onNewListener(timer, event) ==
    IF timer = None /\ event \in PollEvents THEN NewPollTimer ELSE timer

\* a 'removeListener' handler that never clears the interval
onRemoveListenerKeepsTimer(ls, timer, event) == timer

\* the 'removeListener' handler of the constructor; ls is the table after the removal
onRemoveListener(ls, timer, event) ==
    IF timer # None /\ event \in PollEvents /\ pollListenerCount(ls) = 0
    THEN None
    ELSE timer

\* EventEmitter.on / once: emits 'newListener' to its listeners, then appends.
\* An emitter state is [ls, timer].
addListener(es, event, l) ==
    [ls    |-> [es.ls EXCEPT ![event] = Append(@, l)],
     timer |-> IF HasListener(es.ls, "newListener", HookNew)
               THEN onNewListener(es.timer, event)
               ELSE es.timer]

RemoveAt(s, i) == SubSeq(s, 1, i - 1) \o SubSeq(s, i + 1, Len(s))

\* the index EventEmitter.removeListener removes: the last listener of the
\* event that is fn or wraps fn; 0 when there is none
LastIndexOf(s, fn) ==
    LET hits == {i \in 1..Len(s) : s[i].fn = fn}
    IN  IF hits = {} THEN 0 ELSE CHOOSE i \in hits : \A j \in hits : j <= i

\* removes position i of the event, then emits 'removeListener' to its listeners
removeListenerAt(es, event, i) ==
    LET ls2 == [es.ls EXCEPT ![event] = RemoveAt(@, i)]
    IN  [ls    |-> ls2,
         timer |-> IF HasListener(ls2, "removeListener", HookRemove)
                   THEN onRemoveListener(ls2, es.timer, event)
                   ELSE es.timer]

\* EventEmitter.removeListener(event, fn)
removeListener(es, event, fn) ==
    LET i == LastIndexOf(es.ls[event], fn)
    IN  IF i = 0 THEN es ELSE removeListenerAt(es, event, i)

\* EventEmitter.removeAllListeners(event): without 'removeListener' listeners
\* the list is dropped silently, otherwise each listener is removed, last first
RECURSIVE removeEach(_, _)
removeEach(es, event) ==
    IF Len(es.ls[event]) = 0 THEN es
    ELSE removeEach(removeListenerAt(es, event, Len(es.ls[event])), event)

removeAllListenersOf(es, event) ==
    IF Len(es.ls["removeListener"]) = 0
    THEN [es EXCEPT !.ls[event] = <<>>]
    ELSE removeEach(es, event)

\* EventEmitter.removeAllListeners(): every event but 'removeListener' in the
\* order the events were first subscribed to, then 'removeListener' itself.
\* The hooks' events come first (the constructor subscribes to them); the order
\* of the others does not change the result, the timer being cleared when the
\* last polling listener goes.
EventOrder == <<"newListener", "nowPlaying", "supportedCommands", "message">>

RECURSIVE removeInOrder(_, _)
removeInOrder(es, k) ==
    IF k > Len(EventOrder) THEN es
    ELSE removeInOrder(removeAllListenersOf(es, EventOrder[k]), k + 1)

removeAllListeners(es) ==
    IF Len(es.ls["removeListener"]) = 0
    THEN [es EXCEPT !.ls = [e \in Events |-> <<>>]]
    ELSE [removeInOrder(es, 1) EXCEPT !.ls = [e \in Events |-> <<>>]]

\* the once-wrappers of an event remove themselves when the event is emitted
RECURSIVE removeOnce(_, _)
removeOnce(es, event) ==
    LET hits == {i \in 1..Len(es.ls[event]) : es.ls[event][i].once}
    IN  IF hits = {} THEN es
        ELSE removeOnce(removeListenerAt(es, event,
                          CHOOSE i \in hits : \A j \in hits : i <= j), event)

Emitter == [ls |-> listeners, timer |-> queuePollTimer]

----------------------------------------------------------------------------
(* Inbound messages and the events the device makes of them *)

MsgTypes == {"SetStateMessage", "DeviceInfoMessage"}

Opt(S) == {None} \cup {Some(v) : v \in S}

\* a protobuf bool field as JavaScript reads it
Tri == {"true", "false", "undefined"}

NowPlayingInfos == {[title |-> "t"]}
PlaybackQueues == {[contentItems |-> 1]}
RawCommands == [command : {"Play"}, enabled : Tri, canScrub : Tri]
CommandLists == UNION {[1..n -> RawCommands] : n \in 0..MaxCommands}
SupportedCommandsBodies == [supportedCommands : Opt(CommandLists)]

Payloads == [nowPlayingInfo    : Opt(NowPlayingInfos),
             supportedCommands : Opt(SupportedCommandsBodies),
             playbackQueue     : Opt(PlaybackQueues)]

Messages == [type : MsgTypes, payload : Opt(Payloads)]

\* the messages without command lists and queues, for the specifications that
\* are not about the contents of the events
BasicPayloads == [nowPlayingInfo    : Opt(NowPlayingInfos),
                  supportedCommands : Opt({[supportedCommands |-> None]}),
                  playbackQueue     : {None}]

BasicMessages == [type : MsgTypes, payload : Opt(BasicPayloads)]

\* the messages told apart by type and by a payload being there
EmptyPayload == [nowPlayingInfo |-> None, supportedCommands |-> None,
                 playbackQueue |-> None]

TypedMessages == [type : MsgTypes, payload : {None, Some(EmptyPayload)}]

\* x || false
OrFalse(x) == x = "true"

\* a SupportedCommand built with enabled and canScrub in each other's place
SupportedCommandSwapped(sc) ==
    [command |-> sc.command, enabled |-> OrFalse(sc.canScrub),
     canScrub |-> OrFalse(sc.enabled)]

\* new SupportedCommand(sc.command, sc.enabled || false, sc.canScrub || false)
SupportedCommand(sc) ==
    [command |-> sc.command, enabled |-> OrFalse(sc.enabled),
     canScrub |-> OrFalse(sc.canScrub)]

\* (message.payload.supportedCommands.supportedCommands || []).map(...)
mapSupportedCommands(body) ==
    LET list == IF body.supportedCommands = None THEN <<>>
                ELSE body.supportedCommands[1]
    IN  [i \in 1..Len(list) |-> SupportedCommand(list[i])]

\* new NowPlayingInfo(message.payload)
NowPlayingInfo(payload) == [class |-> "NowPlayingInfo", payload |-> payload]

Event(e, v) == [event |-> e, value |-> v]

\* the three conditional emits of a SetStateMessage with a payload
nowPlayingEvent(payload) ==
    IF payload.nowPlayingInfo # None
    THEN <<Event("nowPlaying", Some(NowPlayingInfo(payload)))>>
    ELSE <<>>

supportedCommandsEvent(payload) ==
    IF payload.supportedCommands # None
    THEN <<Event("supportedCommands",
                 mapSupportedCommands(payload.supportedCommands[1]))>>
    ELSE <<>>

playbackQueueEvent(payload) ==
    IF payload.playbackQueue # None
    THEN <<Event("playbackQueue", payload.playbackQueue)>>
    ELSE <<>>

\* a handler without the branch for a null payload: reading a field of null
\* throws before anything is emitted
setStateEventsNoNullBranch(message) ==
    IF message.payload = None
    THEN <<>>
    ELSE nowPlayingEvent(message.payload[1])
         \o supportedCommandsEvent(message.payload[1])
         \o playbackQueueEvent(message.payload[1])

\* the events the 'message' handler of the constructor emits for a message
setStateEvents(message) ==
    IF message.payload = None
    THEN <<Event("nowPlaying", None)>>
    ELSE nowPlayingEvent(message.payload[1])
         \o supportedCommandsEvent(message.payload[1])
         \o playbackQueueEvent(message.payload[1])

onMessage(message) ==
    <<Event("message", Some(message))>>
    \o (IF message.type = "SetStateMessage" THEN setStateEvents(message) ELSE <<>>)

----------------------------------------------------------------------------
(* messageOfType: a waiter is one call, its listener is registered under   *)
(* 'message' with the waiter's own name                                    *)

WaiterFns == <<"w1", "w2", "w3", "w4">>

WaiterListener(i) == [fn |-> WaiterFns[i], once |-> FALSE]

WaiterRegistered(ls, i) == HasListener(ls, "message", WaiterListener(i))

\* waiters that take a message of any type
TakersOfAnyType(ls, ws, message) ==
    {i \in 1..Len(ws) : WaiterRegistered(ls, i)}

\* the waiters whose listener an emit of 'message' calls and that take the message
Takers(ls, ws, message) ==
    {i \in 1..Len(ws) : WaiterRegistered(ls, i) /\ ws[i].type = message.type}

\* listener of messageOfType: resolve(message); removeListener('message', listener)
RECURSIVE removeTakers(_, _)
removeTakers(es, takers) ==
    IF takers = {} THEN es
    ELSE LET i == CHOOSE x \in takers : \A y \in takers : x <= y
         IN  removeTakers(removeListener(es, "message", WaiterFns[i]),
                          takers \ {i})

\* a promise settles once
settle(w, outcome) ==
    IF w.state = "pending"
    THEN [w EXCEPT !.state = outcome, !.settledAt = now]
    ELSE w

resolveTakers(ws, takers) ==
    [i \in 1..Len(ws) |-> IF i \in takers THEN settle(ws[i], "resolved") ELSE ws[i]]

----------------------------------------------------------------------------
(* EventEmitter.emit of the device's events, one after the other *)

\* what emitting one event does to the emitter: once-wrappers go
emitOne(es, event) ==
    IF event \in Events THEN removeOnce(es, event) ELSE es

RECURSIVE emitAll(_, _, _)
emitAll(es, evs, k) ==
    IF k > Len(evs) THEN es
    ELSE emitAll(emitOne(es, evs[k].event), evs, k + 1)

----------------------------------------------------------------------------
(* Credentials.  The caller owns one Credentials object; the device's field *)
(* credentials is a reference to it once openConnection has stored it.      *)
(* readKey and writeKey are the session keys the verification yields.       *)

\* the caller's object as pairing produced it: the long-term fields only
StoredCredentials ==
    [pairingId |-> "pairedId", localPrivateKey |-> "seed",
     remotePeerId |-> "peerId", remotePublicKey |-> "peerKey",
     readKey |-> None, writeKey |-> None]

\* a reference to the caller's object
CallerRef == Some("callerCredentials")

\* the object the device's field credentials refers to, if any
deviceCredentials ==
    IF credentials = None THEN None ELSE Some(callerCredentials)

\* no pairing has been started: the machine is idle, nothing is logged, no
\* credentials have been returned
NoPairing ==
    [state |-> "Idle", attempt |-> 0, log |-> <<>>, failure |-> None,
     returned |-> None]

----------------------------------------------------------------------------
(* The build that runs, and the service the device is constructed for *)

\* src/lib/appletv.ts, and dist/lib/appletv.js that package users run
Builds == {"src", "dist"}

MaxAddresses == 3     \* addresses of a service at most

Addresses == {"fe80::1", "192.168.1.2", "10.0.0.2"}

\* the sequences over S of length n at most
SeqsUpTo(S, n) == UNION {[1..k -> S] : k \in 0..n}

\* a service as the browser reports it; only its addresses matter here
Services == [addresses : SeqsUpTo(Addresses, MaxAddresses)]

DefaultService == [addresses |-> <<"fe80::1", "192.168.1.2">>]

\* an address choice that always takes the first entry
addressOfFirst(svc) ==
    IF Len(svc.addresses) = 0 THEN None ELSE Some(svc.addresses[1])

\* if (service.addresses.length > 1) this.address = service.addresses[1]
\* else this.address = service.addresses[0]; undefined for an empty list
addressOf(svc) ==
    IF Len(svc.addresses) > 1 THEN Some(svc.addresses[2])
    ELSE IF Len(svc.addresses) = 0 THEN None
    ELSE Some(svc.addresses[1])

\* the body sendIntroduction builds in src/lib/appletv.ts
introductionBodySrc(pid) ==
    [uniqueIdentifier |-> pid, name |-> "appletv-node",
     localizedModelName |-> "iPhone", systemBuildVersion |-> "17B111",
     applicationBundleIdentifier |-> "com.apple.TVRemote",
     applicationBundleVersion |-> "344.28", protocolVersion |-> 1,
     allowsPairing |-> TRUE, lastSupportedMessageType |-> 77,
     supportsSystemPairing |-> TRUE, supportsSharedQueue |-> TRUE,
     supportsACL |-> TRUE, supportsExtendedMotion |-> TRUE,
     sharedQueueVersion |-> 2, deviceClass |-> 1, logicalDeviceCount |-> 1]

\* the body sendIntroduction builds in dist/lib/appletv.js
introductionBodyDist(pid) ==
    [uniqueIdentifier |-> pid, name |-> "appletv-node",
     localizedModelName |-> "iPhone", systemBuildVersion |-> "17B111",
     applicationBundleIdentifier |-> "com.apple.TVRemote",
     applicationBundleVersion |-> "344.28", protocolVersion |-> 1,
     allowsPairing |-> TRUE, lastSupportedMessageType |-> 77,
     supportsSystemPairing |-> TRUE, logicalDeviceCount |-> 1]

introductionBody(b, pid) ==
    IF b = "src" THEN introductionBodySrc(pid) ELSE introductionBodyDist(pid)

----------------------------------------------------------------------------
(* The state after new AppleTV(service) *)

\* public pairingId: string = uuid()
GeneratedPairingId == "uuid"

Constructed(b, svc) ==
    /\ listeners = [e \in Events |->
                      IF e = "newListener" THEN <<HookNew>>
                      ELSE IF e = "removeListener" THEN <<HookRemove>>
                      ELSE <<>>]
    /\ queuePollTimer = None
    /\ now = 0
    /\ connState = "idle"
    /\ openedAt = 0
    /\ lastInbound = [kind |-> "none", message |-> None]
    /\ emitted = <<>>
    /\ nextUuid = 1
    /\ sendCalls = <<>>
    /\ outbound = <<>>
    /\ keyCmds = <<>>
    /\ waiters = <<>>
    /\ callerCredentials = StoredCredentials
    /\ credentials = None
    /\ pairingId = GeneratedPairingId
    /\ opens = <<>>
    /\ callbacks = <<>>
    /\ writeCount = 0
    /\ pairing = NoPairing
    /\ build = b
    /\ service = svc
    /\ address = addressOf(svc)

\* the device of the source, constructed for a service of two addresses
Init == Constructed("src", DefaultService)

\* the device of either build
InitBuild == \E b \in Builds : Constructed(b, DefaultService)

\* the device of the source, constructed for any service
InitService == \E svc \in Services : Constructed("src", svc)

isOpen == connState = "open"

----------------------------------------------------------------------------
(* sendMessage: the schema is loaded asynchronously, then the message is   *)
(* handed to connection.send.  A call is [type, body, waitForResponse,     *)
(* owner, at, st]; owner says whose continuation waits for the send.       *)

PollOwner == [kind |-> "poll", id |-> 0]
KeyOwner(k) == [kind |-> "key", id |-> k]

\* sendMessage(definitionFilename, messageType, body, waitForResponse): the
\* call as made, its load pending, priority at its default
sendMessage(type, body, waitForResponse, owner) ==
    [type |-> type, body |-> body, waitForResponse |-> waitForResponse,
     priority |-> 0, owner |-> owner, at |-> now, st |-> "loading"]

OpenOwner(o) == [kind |-> "open", id |-> o]
UserOwner(n) == [kind |-> "user", id |-> n]

\* sendIntroduction(): a DeviceInfoMessage that is waited for
sendIntroduction(owner) ==
    sendMessage("DeviceInfoMessage", introductionBody(build, pairingId), TRUE,
                owner)

\* sendConnectionState(): loads its schema, then
\* connection.send(message, false, 0, that.credentials)
sendConnectionState(owner) ==
    [type |-> "SetConnectionStateMessage", body |-> [state |-> "Connected"],
     waitForResponse |-> FALSE, priority |-> 0, owner |-> owner, at |-> now,
     st |-> "loading"]

\* sendClientUpdatesConfig(config)
sendClientUpdatesConfig(config, owner) ==
    sendMessage("ClientUpdatesConfigMessage", config, FALSE, owner)

\* the config openConnection asks for
UpdatesConfig ==
    [nowPlayingUpdates |-> TRUE, artworkUpdates |-> TRUE,
     keyboardUpdates |-> FALSE, volumeUpdates |-> FALSE]

\* the open call whose steps are in progress, 0 when there is none
OpenInFlight ==
    LET live == {o \in 1..Len(opens) : opens[o].pc \notin {"resolved", "rejected"}}
    IN  IF live = {} THEN 0 ELSE CHOOSE o \in live : TRUE

----------------------------------------------------------------------------
(* Subscribing and unsubscribing *)

\* tv.on(event, fn)
On(event, fn) ==
    /\ Len(listeners[event]) < MaxListeners
    /\ LET es == addListener(Emitter, event, [fn |-> fn, once |-> FALSE])
       IN  /\ listeners' = es.ls
           /\ queuePollTimer' = es.timer
    /\ UNCHANGED <<sessionVars, pairing>>
    /\ UNCHANGED <<now, connState, openedAt, lastInbound, emitted, nextUuid,
                   sendCalls, outbound, keyCmds, waiters>>
    /\ UNCHANGED deviceVars

\* tv.once(event, fn)
Once(event, fn) ==
    /\ Len(listeners[event]) < MaxListeners
    /\ LET es == addListener(Emitter, event, [fn |-> fn, once |-> TRUE])
       IN  /\ listeners' = es.ls
           /\ queuePollTimer' = es.timer
    /\ UNCHANGED <<sessionVars, pairing>>
    /\ UNCHANGED <<now, connState, openedAt, lastInbound, emitted, nextUuid,
                   sendCalls, outbound, keyCmds, waiters>>
    /\ UNCHANGED deviceVars

\* tv.removeListener(event, fn)
RemoveListener(event, fn) ==
    /\ LET es == removeListener(Emitter, event, fn)
       IN  /\ listeners' = es.ls
           /\ queuePollTimer' = es.timer
    /\ UNCHANGED <<sessionVars, pairing>>
    /\ UNCHANGED <<now, connState, openedAt, lastInbound, emitted, nextUuid,
                   sendCalls, outbound, keyCmds, waiters>>
    /\ UNCHANGED deviceVars

\* tv.removeAllListeners(event)
RemoveAllListeners(event) ==
    /\ LET es == removeAllListenersOf(Emitter, event)
       IN  /\ listeners' = es.ls
           /\ queuePollTimer' = es.timer
    /\ UNCHANGED <<sessionVars, pairing>>
    /\ UNCHANGED <<now, connState, openedAt, lastInbound, emitted, nextUuid,
                   sendCalls, outbound, keyCmds, waiters>>
    /\ UNCHANGED deviceVars

\* tv.removeAllListeners()
RemoveEveryListener ==
    /\ LET es == removeAllListeners(Emitter)
       IN  /\ listeners' = es.ls
           /\ queuePollTimer' = es.timer
    /\ UNCHANGED <<sessionVars, pairing>>
    /\ UNCHANGED <<now, connState, openedAt, lastInbound, emitted, nextUuid,
                   sendCalls, outbound, keyCmds, waiters>>
    /\ UNCHANGED deviceVars

----------------------------------------------------------------------------
(* The connection as the device sees it *)

\* connection.open() succeeds: the connection emits 'connect', the device
\* re-emits it, and an openConnection that waits for it goes on to
\* sendIntroduction()
ConnectionOpened ==
    /\ connState # "open"
    /\ connState' = "open"
    /\ openedAt' = now
    /\ lastInbound' = [kind |-> "connect", message |-> None]
    /\ emitted' = <<Event("connect", None)>>
    /\ LET es == emitOne(Emitter, "connect")
       IN  /\ listeners' = es.ls
           /\ queuePollTimer' = es.timer
    /\ LET o == OpenInFlight
       IN  IF o # 0 /\ opens[o].pc = "connecting"
           THEN /\ opens' = [opens EXCEPT ![o].pc = "introduction"]
                /\ sendCalls' = Append(sendCalls, sendIntroduction(OpenOwner(o)))
           ELSE UNCHANGED <<opens, sendCalls>>
    /\ UNCHANGED <<callerCredentials, credentials, pairingId, callbacks,
                   writeCount, pairing>>
    /\ UNCHANGED <<now, nextUuid, outbound, keyCmds, waiters>>
    /\ UNCHANGED deviceVars

\* the 'close' handler of the constructor
onClose(es) == emitOne(es, "close")

\* a 'close' handler that emits nothing
closeEventsNone == <<>>

\* what the 'close' handler of the constructor emits
closeEvents == <<Event("close", None)>>

\* the connection, its socket closing: every pending callback is rejected
rejectPending(cbs) ==
    [c \in 1..Len(cbs) |->
        IF cbs[c].state = "pending" THEN [cbs[c] EXCEPT !.state = "rejected"]
        ELSE cbs[c]]

\* whether open call o waits for a response that is pending
AwaitsResponse(o) ==
    \E c \in 1..Len(callbacks) :
        /\ callbacks[c].state = "pending"
        /\ sendCalls[callbacks[c].call].owner = OpenOwner(o)

\* the rejection of the introduction rejects the openConnection that waits for it
rejectOpens(ops, failure) ==
    [o \in 1..Len(ops) |->
        IF ops[o].pc = "introduction" /\ AwaitsResponse(o)
        THEN [ops[o] EXCEPT !.pc = "rejected", !.failure = failure]
        ELSE ops[o]]

\* tv.closeConnection(), or the socket closing: the connection rejects its
\* pending callbacks and emits 'close', the device re-emits it
CloseConnection ==
    /\ connState = "open"
    /\ connState' = "closed"
    /\ lastInbound' = [kind |-> "close", message |-> None]
    /\ emitted' = closeEvents
    /\ LET es == onClose(Emitter)
       IN  /\ listeners' = es.ls
           /\ queuePollTimer' = es.timer
    /\ callbacks' = rejectPending(callbacks)
    /\ opens' = rejectOpens(opens, "closed")
    /\ UNCHANGED <<callerCredentials, credentials, pairingId, writeCount, pairing>>
    /\ UNCHANGED <<now, openedAt, nextUuid, sendCalls, outbound, keyCmds, waiters>>
    /\ UNCHANGED deviceVars

\* the connection emits 'message': the handler of the constructor runs
Receive(message) ==
    /\ connState = "open"
    /\ lastInbound' = [kind |-> "message", message |-> Some(message)]
    /\ emitted' = onMessage(message)
    /\ LET takers == Takers(listeners, waiters, message)
           es1 == removeTakers(emitOne(Emitter, "message"), takers)
           es2 == emitAll(es1, Tail(onMessage(message)), 1)
       IN  /\ listeners' = es2.ls
           /\ queuePollTimer' = es2.timer
           /\ waiters' = resolveTakers(waiters, takers)
    /\ UNCHANGED <<sessionVars, pairing>>
    /\ UNCHANGED <<now, connState, openedAt, nextUuid, sendCalls, outbound, keyCmds>>
    /\ UNCHANGED deviceVars

----------------------------------------------------------------------------
(* Subscriptions, the connection and inbound messages *)

Next ==
    \/ \E e \in UserEvents, f \in UserFns : On(e, f)
    \/ \E e \in UserEvents, f \in UserFns : Once(e, f)
    \/ \E e \in UserEvents, f \in UserFns : RemoveListener(e, f)
    \/ \E e \in UserEvents : RemoveAllListeners(e)
    \/ RemoveEveryListener
    \/ ConnectionOpened
    \/ CloseConnection
    \/ \E m \in BasicMessages : Receive(m)

Spec == Init /\ [][Next]_vars

----------------------------------------------------------------------------
(* Handing messages to the connection *)

\* a call of connection.send that never asks for the response
FrameNeverWaits(i) ==
    [call |-> i, type |-> sendCalls[i].type, body |-> sendCalls[i].body,
     waitForResponse |-> FALSE,
     priority |-> sendCalls[i].priority, at |-> now,
     credentials |-> deviceCredentials]

\* what connection.send is given: the message, waitForResponse and the
\* device's credentials as they are when the load has ended
Frame(i) ==
    [call |-> i, type |-> sendCalls[i].type, body |-> sendCalls[i].body,
     waitForResponse |-> sendCalls[i].waitForResponse,
     priority |-> sendCalls[i].priority, at |-> now,
     credentials |-> deviceCredentials]

\* Connection.send finds session keys in the credentials it is given
HasSessionKeys(creds) == creds # None /\ creds[1].writeKey # None

\* the default timeout of a waited send, in seconds
CallbackTimeout == 5

\* Connection.send(message, waitForResponse, priority, credentials): a waited
\* message is stamped with a fresh uuid; with session keys the frame is
\* encrypted under the write counter, without them it is written in plaintext
send(frame) ==
    frame @@ [identifier |-> IF frame.waitForResponse THEN Some(nextUuid) ELSE None,
              encrypted  |-> HasSessionKeys(frame.credentials),
              counter    |-> IF HasSessionKeys(frame.credentials)
                             THEN Some(writeCount) ELSE None]

\* the write counter after a frame: one more for an encrypted frame
countAfter(frame) ==
    IF HasSessionKeys(frame.credentials) THEN writeCount + 1 ELSE writeCount

\* Connection.addCallback: the pending callback of a waited send
PendingCallback(i) ==
    [identifier |-> nextUuid, call |-> i, state |-> "pending",
     response |-> None, deadline |-> now + CallbackTimeout, order |-> 0]

\* requestPlaybackQueueWithWait(options, waitForResponse): requestID is a
\* fresh uuid, artworkSize is flattened
requestPlaybackQueueWithWait(options, waitForResponse, owner) ==
    sendMessage("PlaybackQueueRequestMessage",
                [location      |-> options.location,
                 length        |-> options.length,
                 artworkWidth  |-> options.artworkSize.width,
                 artworkHeight |-> options.artworkSize.height,
                 requestID     |-> nextUuid],
                waitForResponse, owner)

\* the options of the polling request
PollOptions ==
    [length |-> 100, location |-> 0, artworkSize |-> [width |-> -1, height |-> 368]]

\* whether a tick of the interval sends a request
pollSends == isOpen

\* the interval timer fires: the callback given to setInterval runs, and the
\* interval is due again one period later
PollTick ==
    /\ queuePollTimer # None
    /\ queuePollTimer[1].due <= now
    /\ queuePollTimer' = Some([queuePollTimer[1] EXCEPT !.due = @ + PollInterval])
    /\ IF pollSends
       THEN /\ sendCalls' = Append(sendCalls,
                  requestPlaybackQueueWithWait(PollOptions, FALSE, PollOwner))
            /\ nextUuid' = nextUuid + 1
       ELSE UNCHANGED <<sendCalls, nextUuid>>
    /\ UNCHANGED <<sessionVars, pairing>>
    /\ UNCHANGED <<listeners, now, connState, openedAt, lastInbound, emitted,
                   outbound, keyCmds, waiters>>
    /\ UNCHANGED deviceVars

\* no timer is due: every timer that is due fires before the clock moves on
NoTimerDue ==
    /\ queuePollTimer # None => queuePollTimer[1].due > now
    /\ \A k \in 1..Len(keyCmds) : keyCmds[k].pc = "hold" => keyCmds[k].holdDue > now
    /\ \A i \in 1..Len(waiters) : ~waiters[i].timerFired => waiters[i].deadline > now
    /\ \A c \in 1..Len(callbacks) :
          callbacks[c].state = "pending" => callbacks[c].deadline > now

\* one second passes
AdvanceClock(limit) ==
    /\ now < limit
    /\ NoTimerDue
    /\ now' = now + 1
    /\ UNCHANGED <<sessionVars, pairing>>
    /\ UNCHANGED <<listeners, queuePollTimer, connState, openedAt, lastInbound,
                   emitted, nextUuid, sendCalls, outbound, keyCmds, waiters>>
    /\ UNCHANGED deviceVars

\* connection.send on a connection that is not open fails: its promise rejects
sendResult == IF isOpen THEN "resolved" ELSE "rejected"

\* a tick that leaves the rejection of its send to nobody
tickUncaught(result) == IF result = "resolved" THEN "sent" ELSE "unhandled"

\* the tick's .then(() => {}).catch(error => {}): the outcome of the send is
\* dropped, a rejection included
tickCaught(result) == IF result = "resolved" THEN "sent" ELSE "failed"

\* the load of a polling request ends: connection.send(message, false, ...) is
\* called; the tick's then/catch drop the outcome
PollLoadDone(i) ==
    /\ i \in 1..Len(sendCalls)
    /\ sendCalls[i].st = "loading"
    /\ sendCalls[i].owner = PollOwner
    /\ outbound' = Append(outbound, send(Frame(i)))
    /\ sendCalls' = [sendCalls EXCEPT ![i].st = tickCaught(sendResult)]
    /\ writeCount' = countAfter(Frame(i))
    /\ UNCHANGED <<callerCredentials, credentials, pairingId, opens, callbacks,
                   pairing>>
    /\ UNCHANGED <<listeners, queuePollTimer, now, connState, openedAt,
                   lastInbound, emitted, nextUuid, keyCmds, waiters>>
    /\ UNCHANGED deviceVars

----------------------------------------------------------------------------
(* Key commands *)

\* enum AppleTV.Key
Keys == {"Up", "Down", "Left", "Right", "Menu", "Play", "Pause", "Next", "Previous", "Suspend", "Select", "Topmenu", "WakeUp", "VolumeUp", "VolumeDown", "Home", "HomeHold"}

\* the strings AppleTV.key is given: the lower-case names of the keys and one
\* that names no key
KeyNames == {"up", "down", "left", "right", "menu", "play", "pause", "next",
             "previous", "suspend", "select", "topmenu", "wakeup", "volumeup",
             "volumedown", "home", "homehold", "bogus"}

\* AppleTV.key(name): the switch over the names; no case, no key
key(name) ==
    CASE name = "up" -> Some("Up")
      [] name = "down" -> Some("Down")
      [] name = "left" -> Some("Left")
      [] name = "right" -> Some("Right")
      [] name = "menu" -> Some("Menu")
      [] name = "play" -> Some("Play")
      [] name = "pause" -> Some("Pause")
      [] name = "previous" -> Some("Previous")
      [] name = "suspend" -> Some("Suspend")
      [] name = "select" -> Some("Select")
      [] name = "topmenu" -> Some("Topmenu")
      [] name = "wakeup" -> Some("WakeUp")
      [] name = "volumeup" -> Some("VolumeUp")
      [] name = "volumedown" -> Some("VolumeDown")
      [] name = "home" -> Some("Home")
      [] name = "homehold" -> Some("HomeHold")
      [] OTHER -> None

\* the arguments taken in the wrong order
KeyPressSwapped(usePage, usage, hold) ==
    [usePage |-> usage, usage |-> usePage, hold |-> hold]

\* the arguments sendKeyCommand gives sendKeyPressAndRelease
KeyPress(usePage, usage, hold) == [usePage |-> usePage, usage |-> usage, hold |-> hold]

\* the switch of sendKeyCommand
KeyArgs(k) ==
    CASE k = "Up" -> KeyPress(1, 140, FALSE)   \* 0x8C
      [] k = "Down" -> KeyPress(1, 141, FALSE)   \* 0x8D
      [] k = "Left" -> KeyPress(1, 139, FALSE)   \* 0x8B
      [] k = "Right" -> KeyPress(1, 138, FALSE)   \* 0x8A
      [] k = "Menu" -> KeyPress(1, 134, FALSE)   \* 0x86
      [] k = "Play" -> KeyPress(12, 176, FALSE)   \* 0xB0
      [] k = "Pause" -> KeyPress(12, 177, FALSE)   \* 0xB1
      [] k = "Next" -> KeyPress(12, 181, FALSE)   \* 0xB5
      [] k = "Previous" -> KeyPress(12, 182, FALSE)   \* 0xB6
      [] k = "Suspend" -> KeyPress(1, 130, FALSE)   \* 0x82
      [] k = "Select" -> KeyPress(1, 137, FALSE)   \* 0x89
      [] k = "Topmenu" -> KeyPress(12, 96, FALSE)   \* 0x60
      [] k = "WakeUp" -> KeyPress(1, 131, FALSE)   \* 0x83
      [] k = "VolumeUp" -> KeyPress(12, 233, FALSE)   \* 0xE9
      [] k = "VolumeDown" -> KeyPress(12, 234, FALSE)   \* 0xEA
      [] k = "Home" -> KeyPress(12, 64, FALSE)   \* 0x40
      [] k = "HomeHold" -> KeyPress(12, 64, TRUE)   \* 0x40

\* Buffer.from(hex, 'hex'): two hex digits make a byte
RECURSIVE FromHex(_)
FromHex(digits) ==
    IF Len(digits) < 2 THEN <<>>
    ELSE <<16 * digits[1] + digits[2]>> \o FromHex(SubSeq(digits, 3, Len(digits)))

\* '438922cf08020000'
HidTimeHex == <<4, 3, 8, 9, 2, 2, 12, 15, 0, 8, 0, 2, 0, 0, 0, 0>>
\* '00000000000000000100000000000000020'
HidHeadHexA == <<0, 0, 0, 0, 0, 0, 0, 0, 0, 0, 0, 0, 0, 0, 0, 0, 0, 1, 0, 0, 0, 0, 0, 0, 0, 0, 0, 0, 0, 0, 0, 0, 0, 2, 0>>
\* '00000200000000300000001000000000000'
HidHeadHexB == <<0, 0, 0, 0, 0, 2, 0, 0, 0, 0, 0, 0, 0, 0, 3, 0, 0, 0, 0, 0, 0, 0, 1, 0, 0, 0, 0, 0, 0, 0, 0, 0, 0, 0, 0>>
\* '0000000000000001000000'
HidTailHex == <<0, 0, 0, 0, 0, 0, 0, 0, 0, 0, 0, 0, 0, 0, 0, 1, 0, 0, 0, 0, 0, 0>>

\* number.UInt16toBufferBE(n): the two bytes of n, high byte first
UInt16toBufferBE(n) == <<(n % 65536) \div 256, n % 256>>

\* a hidEventData with usage before usePage
hidEventDataUsageFirst(usePage, usage, down) ==
    FromHex(HidTimeHex)
    \o FromHex(HidHeadHexA \o HidHeadHexB)
    \o (UInt16toBufferBE(usage) \o UInt16toBufferBE(usePage)
        \o (IF down THEN UInt16toBufferBE(1) ELSE UInt16toBufferBE(0)))
    \o FromHex(HidTailHex)

\* the hidEventData sendKeyPress builds
hidEventData(usePage, usage, down) ==
    FromHex(HidTimeHex)
    \o FromHex(HidHeadHexA \o HidHeadHexB)
    \o (UInt16toBufferBE(usePage) \o UInt16toBufferBE(usage)
        \o (IF down THEN UInt16toBufferBE(1) ELSE UInt16toBufferBE(0)))
    \o FromHex(HidTailHex)

\* sendKeyPress(usePage, usage, down): one SendHIDEventMessage, not waited for
sendKeyPress(usePage, usage, down, owner) ==
    sendMessage("SendHIDEventMessage",
                [hidEventData |-> hidEventData(usePage, usage, down)],
                FALSE, owner)

\* sendKeyCommand(key) is called.  A key that is no member of the enum matches
\* no case: the call returns undefined.  Otherwise sendKeyPressAndRelease
\* starts with the press and the call returns its promise.
SendKeyCommand(k) ==
    /\ Len(keyCmds) < MaxKeyCmds
    /\ IF k = None
       THEN /\ keyCmds' = Append(keyCmds,
                  [key |-> None, args |-> KeyPress(0, 0, FALSE),
                   pc |-> "returned", returned |-> "undefined",
                   openAtCall |-> isOpen, holdDue |-> 0])
            /\ UNCHANGED sendCalls
       ELSE /\ keyCmds' = Append(keyCmds,
                  [key |-> k, args |-> KeyArgs(k[1]),
                   pc |-> "press", returned |-> "promise",
                   openAtCall |-> isOpen, holdDue |-> 0])
            /\ sendCalls' = Append(sendCalls,
                  sendKeyPress(KeyArgs(k[1]).usePage, KeyArgs(k[1]).usage, TRUE,
                               KeyOwner(Len(keyCmds) + 1)))
    /\ UNCHANGED <<sessionVars, pairing>>
    /\ UNCHANGED <<listeners, queuePollTimer, now, connState, openedAt,
                   lastInbound, emitted, nextUuid, outbound, waiters>>
    /\ UNCHANGED deviceVars

\* a sendKeyPressAndRelease that never waits between press and release
afterPressNoDelay(cmd) == [cmd EXCEPT !.pc = "release"]

\* sendKeyPressAndRelease after `await this.sendKeyPress(usePage, usage, true)`:
\* a hold waits first, any other key goes on to the release
afterPress(cmd) ==
    IF cmd.args.hold
    THEN [cmd EXCEPT !.pc = "hold", !.holdDue = now + HoldDelay]
    ELSE [cmd EXCEPT !.pc = "release"]

\* the load of a key message ends: connection.send(message, false, ...) is
\* called and resolves at once, and sendKeyPressAndRelease goes on
KeyLoadDone(i) ==
    /\ i \in 1..Len(sendCalls)
    /\ sendCalls[i].st = "loading"
    /\ sendCalls[i].owner.kind = "key"
    /\ outbound' = Append(outbound, send(Frame(i)))
    /\ LET k == sendCalls[i].owner.id
           cmd == keyCmds[k]
           sent == [sendCalls EXCEPT ![i].st = "sent"]
       IN  IF cmd.pc = "press"
           THEN /\ keyCmds' = [keyCmds EXCEPT ![k] = afterPress(cmd)]
                /\ sendCalls' =
                      IF afterPress(cmd).pc = "release"
                      THEN Append(sent, sendKeyPress(cmd.args.usePage,
                                        cmd.args.usage, FALSE, KeyOwner(k)))
                      ELSE sent
           ELSE /\ keyCmds' = [keyCmds EXCEPT ![k].pc = "resolved"]
                /\ sendCalls' = sent
    /\ writeCount' = countAfter(Frame(i))
    /\ UNCHANGED <<callerCredentials, credentials, pairingId, opens, callbacks,
                   pairing>>
    /\ UNCHANGED <<listeners, queuePollTimer, now, connState, openedAt,
                   lastInbound, emitted, nextUuid, waiters>>
    /\ UNCHANGED deviceVars

\* `await delay(1000)` ends: the release is sent
HoldDone(k) ==
    /\ k \in 1..Len(keyCmds)
    /\ keyCmds[k].pc = "hold"
    /\ keyCmds[k].holdDue <= now
    /\ keyCmds' = [keyCmds EXCEPT ![k].pc = "release"]
    /\ sendCalls' = Append(sendCalls,
          sendKeyPress(keyCmds[k].args.usePage, keyCmds[k].args.usage, FALSE,
                       KeyOwner(k)))
    /\ UNCHANGED <<sessionVars, pairing>>
    /\ UNCHANGED <<listeners, queuePollTimer, now, connState, openedAt,
                   lastInbound, emitted, nextUuid, outbound, waiters>>
    /\ UNCHANGED deviceVars

NextKey ==
    \/ \E k \in Keys : SendKeyCommand(Some(k))
    \/ \E name \in KeyNames : SendKeyCommand(key(name))
    \/ \E i \in 1..Len(sendCalls) : KeyLoadDone(i)
    \/ \E k \in 1..Len(keyCmds) : HoldDone(k)
    \/ ConnectionOpened
    \/ AdvanceClock(MaxHoldTime)

SpecKey == Init /\ [][NextKey]_vars

----------------------------------------------------------------------------
(* openConnection: connection.open(), the introduction, and with           *)
(* credentials the verification, SetConnectionState and ClientUpdatesConfig *)

MaxOpens == 2         \* openConnection calls at most

\* openConnection(credentials) as called: connection.open() is pending
OpenCall(creds) ==
    [credentials |-> creds, pc |-> "connecting", failure |-> "none",
     verified |-> "no"]

\* an openConnection that leaves the device's pairingId as it is
openPairingIdKept(creds) == pairingId

\* if (credentials) { this.pairingId = credentials.pairingId; }
openPairingId(creds) ==
    IF creds # None THEN callerCredentials.pairingId ELSE pairingId

\* tv.openConnection(credentials): with credentials the device takes their
\* pairingId; then connection.open() is called
OpenConnection(creds) ==
    /\ Len(opens) < MaxOpens
    /\ connState # "open"
    /\ OpenInFlight = 0
    /\ pairingId' = openPairingId(creds)
    /\ opens' = Append(opens, OpenCall(creds))
    /\ UNCHANGED <<callerCredentials, credentials, callbacks, writeCount, pairing>>
    /\ UNCHANGED <<listeners, queuePollTimer, now, connState, openedAt,
                   lastInbound, emitted, nextUuid, sendCalls, outbound, keyCmds,
                   waiters>>
    /\ UNCHANGED deviceVars

\* one message of the verification, handed to the device to send
verifierMessage(state, owner) ==
    sendMessage("CryptoPairingMessage", [state |-> state], FALSE, owner)

\* the session keys verification number o derives
SessionKeys(o) ==
    [readKey |-> Some([session |-> o, key |-> "read"]),
     writeKey |-> Some([session |-> o, key |-> "write"])]

\* that.credentials.readKey = keys['readKey'];
\* that.credentials.writeKey = keys['writeKey']
withKeys(creds, keys) ==
    [creds EXCEPT !.readKey = keys.readKey, !.writeKey = keys.writeKey]

\* the step after the introduction's response: that.credentials = credentials,
\* then the verification with credentials, the end without
afterIntroduction(open) ==
    IF open.credentials # None
    THEN [open EXCEPT !.pc = "verify"]
    ELSE [open EXCEPT !.pc = "resolved"]

\* a step after the keys that leaves SetConnectionState out
afterVerifySkipsState(owner) ==
    [pc |-> "clientUpdates", call |-> sendClientUpdatesConfig(UpdatesConfig, owner)]

\* the step after the keys are stored: return that.sendConnectionState()
afterVerify(owner) ==
    [pc |-> "connectionState", call |-> sendConnectionState(owner)]

\* the step after SetConnectionState: sendClientUpdatesConfig({...})
afterConnectionState(owner) ==
    [pc |-> "clientUpdates", call |-> sendClientUpdatesConfig(UpdatesConfig, owner)]

\* a chain that takes the failure of the verification for its success
afterVerifyFailureSwallowed(open) ==
    [open EXCEPT !.pc = "resolved", !.verified = "failed"]

\* verifier.verify() rejects: no step of openConnection handles it, the
\* promise of openConnection rejects
afterVerifyFailure(open) ==
    [open EXCEPT !.pc = "rejected", !.failure = "AuthError", !.verified = "failed"]

\* the load of a message of openConnection or of a caller's sendMessage ends:
\* connection.send is called.  A waited message gets its pending callback;
\* any other resolves at once and the step that waits for it runs.
LoadDone(i) ==
    /\ i \in 1..Len(sendCalls)
    /\ sendCalls[i].st = "loading"
    /\ sendCalls[i].owner.kind \in {"open", "user"}
    /\ outbound' = Append(outbound, send(Frame(i)))
    /\ LET call == sendCalls[i]
           o == call.owner.id
           sent == [sendCalls EXCEPT ![i].st = "sent"]
       IN  IF Frame(i).waitForResponse
           THEN /\ callbacks' = Append(callbacks, PendingCallback(i))
                /\ nextUuid' = nextUuid + 1
                /\ sendCalls' = sent
                /\ writeCount' = countAfter(Frame(i))
                /\ UNCHANGED <<opens, callerCredentials>>
           ELSE /\ UNCHANGED <<callbacks, nextUuid>>
                /\ IF call.owner.kind = "user" \/ opens[o].pc = "verify"
                   THEN \* nobody goes on: M1 is sent, the verification waits for M2
                        /\ sendCalls' = sent
                        /\ writeCount' = countAfter(Frame(i))
                        /\ UNCHANGED <<opens, callerCredentials>>
                   ELSE IF opens[o].pc = "verifyM3"
                   THEN \* M3 is sent: the keys are derived and stored
                        /\ callerCredentials' =
                              withKeys(callerCredentials, SessionKeys(o))
                        /\ writeCount' = 0
                        /\ opens' = [opens EXCEPT
                              ![o].pc = afterVerify(call.owner).pc,
                              ![o].verified = "ok"]
                        /\ sendCalls' = Append(sent, afterVerify(call.owner).call)
                   ELSE IF opens[o].pc = "connectionState"
                   THEN /\ opens' = [opens EXCEPT
                              ![o].pc = afterConnectionState(call.owner).pc]
                        /\ sendCalls' =
                              Append(sent, afterConnectionState(call.owner).call)
                        /\ writeCount' = countAfter(Frame(i))
                        /\ UNCHANGED callerCredentials
                   ELSE \* ClientUpdatesConfig is sent: Promise.resolve(that)
                        /\ opens' = [opens EXCEPT ![o].pc = "resolved"]
                        /\ sendCalls' = sent
                        /\ writeCount' = countAfter(Frame(i))
                        /\ UNCHANGED callerCredentials
    /\ UNCHANGED <<credentials, pairingId, pairing>>
    /\ UNCHANGED <<listeners, queuePollTimer, now, connState, openedAt,
                   lastInbound, emitted, keyCmds, waiters>>
    /\ UNCHANGED deviceVars

\* Connection.executeCallbacks: the pending callbacks of the identifier resolve
resolveCallbacks(cbs, message, identifier) ==
    LET done == Cardinality({d \in 1..Len(cbs) : cbs[d].state = "resolved"})
    IN  [c \in 1..Len(cbs) |->
            IF cbs[c].state = "pending" /\ cbs[c].identifier = identifier
            THEN [cbs[c] EXCEPT !.state = "resolved",
                                !.response = Some([message |-> message,
                                                   identifier |-> identifier]),
                                !.order = done + 1]
            ELSE cbs[c]]

\* the open call whose introduction the identifier answers, 0 when there is none
OpenAnswered(identifier) ==
    LET hit == {o \in 1..Len(opens) :
                   /\ opens[o].pc = "introduction"
                   /\ \E c \in 1..Len(callbacks) :
                         /\ callbacks[c].state = "pending"
                         /\ callbacks[c].identifier = identifier
                         /\ sendCalls[callbacks[c].call].owner = OpenOwner(o)}
    IN  IF hit = {} THEN 0 ELSE CHOOSE o \in hit : TRUE

\* an inbound message that carries an identifier: the connection resolves the
\* pending callback of that identifier, then emits 'message' and the handler
\* of the constructor runs; an openConnection whose introduction it answers
\* goes on
ReceiveResponse(message, identifier) ==
    /\ connState = "open"
    /\ lastInbound' = [kind |-> "message", message |-> Some(message)]
    /\ emitted' = onMessage(message)
    /\ LET takers == Takers(listeners, waiters, message)
           es1 == removeTakers(emitOne(Emitter, "message"), takers)
           es2 == emitAll(es1, Tail(onMessage(message)), 1)
       IN  /\ listeners' = es2.ls
           /\ queuePollTimer' = es2.timer
           /\ waiters' = resolveTakers(waiters, takers)
    /\ callbacks' = resolveCallbacks(callbacks, message, identifier)
    /\ LET o == OpenAnswered(identifier)
       IN  IF o = 0
           THEN UNCHANGED <<opens, credentials, sendCalls>>
           ELSE /\ credentials' = opens[o].credentials
                /\ opens' = [opens EXCEPT ![o] = afterIntroduction(@)]
                /\ sendCalls' =
                      IF afterIntroduction(opens[o]).pc = "verify"
                      THEN Append(sendCalls, verifierMessage("M1", OpenOwner(o)))
                      ELSE sendCalls
    /\ UNCHANGED <<callerCredentials, pairingId, writeCount, pairing>>
    /\ UNCHANGED <<now, connState, openedAt, nextUuid, outbound, keyCmds>>
    /\ UNCHANGED deviceVars

\* the M2 of the verification as the device receives it
VerifierM2 == [type |-> "CryptoPairingMessage", payload |-> None]

\* whether the M1 of open call o has been handed to the connection
M1Sent(o) ==
    \E i \in 1..Len(sendCalls) :
        /\ sendCalls[i].owner = OpenOwner(o)
        /\ sendCalls[i].type = "CryptoPairingMessage"
        /\ sendCalls[i].st = "sent"

\* the device's M2 arrives.  When it verifies the verifier sends M3; a
\* signature mismatch, a wrong identifier or a decryption failure is an
\* AuthError: verify() rejects and the connection is closed.
VerifyM2(o, valid) ==
    /\ o \in 1..Len(opens)
    /\ connState = "open"
    /\ opens[o].pc = "verify"
    /\ M1Sent(o)
    /\ lastInbound' = [kind |-> "message", message |-> Some(VerifierM2)]
    /\ LET takers == Takers(listeners, waiters, VerifierM2)
           es1 == removeTakers(emitOne(Emitter, "message"), takers)
           es2 == IF valid THEN es1 ELSE onClose(es1)
       IN  /\ listeners' = es2.ls
           /\ queuePollTimer' = es2.timer
           /\ waiters' = resolveTakers(waiters, takers)
    /\ IF valid
       THEN /\ emitted' = onMessage(VerifierM2)
            /\ opens' = [opens EXCEPT ![o].pc = "verifyM3"]
            /\ sendCalls' = Append(sendCalls, verifierMessage("M3", OpenOwner(o)))
            /\ UNCHANGED <<connState, callbacks>>
       ELSE /\ emitted' = onMessage(VerifierM2) \o closeEvents
            /\ opens' = [opens EXCEPT ![o] = afterVerifyFailure(@)]
            /\ connState' = "closed"
            /\ callbacks' = rejectPending(callbacks)
            /\ UNCHANGED sendCalls
    /\ UNCHANGED <<callerCredentials, credentials, pairingId, writeCount, pairing>>
    /\ UNCHANGED <<now, openedAt, nextUuid, outbound, keyCmds>>
    /\ UNCHANGED deviceVars

\* the device's answer to the introduction
IntroductionResponse == [type |-> "DeviceInfoMessage", payload |-> Some(EmptyPayload)]

\* an openConnection with credentials has resolved
OpenedWithCredentials ==
    \E o \in 1..Len(opens) :
        opens[o].pc = "resolved" /\ opens[o].credentials # None

\* no openConnection and no key command is in progress
KeysIdle ==
    /\ OpenInFlight = 0
    /\ \A k \in 1..Len(keyCmds) : keyCmds[k].pc = "resolved"

\* an openConnection waits for connection.open()
Connecting == \E o \in 1..Len(opens) : opens[o].pc = "connecting"

\* The socket connects when openConnection has asked for it, the device
\* answers with identifiers it was sent, and the caller presses Menu once an
\* openConnection with credentials has resolved, one key command at a time.
NextOpen ==
    \/ \E creds \in {None, CallerRef} : OpenConnection(creds)
    \/ Connecting /\ ConnectionOpened
    \/ CloseConnection
    \/ \E i \in 1..Len(sendCalls) : LoadDone(i)
    \/ \E id \in 1..(nextUuid - 1) : ReceiveResponse(IntroductionResponse, id)
    \/ \E o \in 1..Len(opens), valid \in BOOLEAN : VerifyM2(o, valid)
    \/ OpenedWithCredentials /\ KeysIdle /\ SendKeyCommand(Some("Menu"))
    \/ \E i \in 1..Len(sendCalls) : KeyLoadDone(i)

SpecOpen == Init /\ [][NextOpen]_vars

\* openConnection on the device of either build
SpecBuild == InitBuild /\ [][NextOpen]_vars

\* the device constructed for any service, its connection opening and closing
NextService ==
    \/ ConnectionOpened
    \/ CloseConnection

SpecService == InitService /\ [][NextService]_vars

----------------------------------------------------------------------------
(* sendMessage as a caller uses it, and the waited sends of the connection *)

MaxSends == 2         \* sendMessage calls of the caller at most
MaxSendTime == 5      \* the clock stops here while sends are studied

\* tv.sendMessage(definitionFilename, messageType, body, waitForResponse, priority)
SendMessage(type, waitForResponse, priority) ==
    /\ Len(sendCalls) < MaxSends
    /\ sendCalls' = Append(sendCalls,
          [sendMessage(type, [n |-> Len(sendCalls) + 1], waitForResponse,
                       UserOwner(Len(sendCalls) + 1))
              EXCEPT !.priority = priority])
    /\ UNCHANGED <<sessionVars, pairing>>
    /\ UNCHANGED <<listeners, queuePollTimer, now, connState, openedAt,
                   lastInbound, emitted, nextUuid, outbound, keyCmds, waiters>>
    /\ UNCHANGED deviceVars

\* the deadline of a pending callback passes: it is removed and rejected with
\* a timeout error, and an openConnection that waits for it rejects
CallbackExpired(c) ==
    /\ c \in 1..Len(callbacks)
    /\ callbacks[c].state = "pending"
    /\ callbacks[c].deadline <= now
    /\ callbacks' = [callbacks EXCEPT ![c].state = "timedout"]
    /\ opens' = [o \in 1..Len(opens) |->
                    IF /\ opens[o].pc = "introduction"
                       /\ sendCalls[callbacks[c].call].owner = OpenOwner(o)
                    THEN [opens[o] EXCEPT !.pc = "rejected",
                                          !.failure = "TimeoutError"]
                    ELSE opens[o]]
    /\ UNCHANGED <<callerCredentials, credentials, pairingId, writeCount, pairing>>
    /\ UNCHANGED <<listeners, queuePollTimer, now, connState, openedAt,
                   lastInbound, emitted, nextUuid, sendCalls, outbound, keyCmds,
                   waiters>>
    /\ UNCHANGED deviceVars

\* the sends of the caller: waited for or not, of either priority
UserSends ==
    {[type |-> "DeviceInfoMessage", waitForResponse |-> TRUE, priority |-> 0],
     [type |-> "SetStateMessage", waitForResponse |-> TRUE, priority |-> 1],
     [type |-> "SetStateMessage", waitForResponse |-> FALSE, priority |-> 0]}

\* The device answers with any identifier it was sent and with one it was not.
NextSend ==
    \/ \E u \in UserSends : SendMessage(u.type, u.waitForResponse, u.priority)
    \/ \E i \in 1..Len(sendCalls) : LoadDone(i)
    \/ \E id \in 1..nextUuid : ReceiveResponse(IntroductionResponse, id)
    \/ ConnectionOpened
    \/ CloseConnection

SpecSend == Init /\ [][NextSend]_vars

\* Waited sends made when the session starts, with the clock running: a
\* waiter ends by its response, by its deadline or by the close.
NextWaited ==
    \/ now = 0 /\ SendMessage("DeviceInfoMessage", TRUE, 0)
    \/ \E i \in 1..Len(sendCalls) : LoadDone(i)
    \/ \E id \in 1..(nextUuid - 1) : ReceiveResponse(IntroductionResponse, id)
    \/ \E c \in 1..Len(callbacks) : CallbackExpired(c)
    \/ ConnectionOpened
    \/ CloseConnection
    \/ AdvanceClock(MaxSendTime)

SpecWaited == Init /\ [][NextWaited]_vars

----------------------------------------------------------------------------
(* pair(): the pairing state machine of a Pairing object *)

MaxPairs == 2         \* pair() calls at most

PairingStates ==
    {"Idle", "AwaitM2", "AwaitPIN", "AwaitM4", "AwaitM6", "Done", "Failed"}

\* the sequence bytes an inbound CryptoPairingMessage can carry
PairingSeqs == 1..6

\* one entry of the pairing's history: what happened, and the sequence byte
\* of the message when it was one
Logged(ev, seq) == [ev |-> ev, seq |-> seq]

\* the sequence byte waitForSequence waits for in each state, 0 when the
\* machine waits for no message
Expected(state) ==
    CASE state = "AwaitM2" -> 2
      [] state = "AwaitM4" -> 4
      [] state = "AwaitM6" -> 6
      [] OTHER -> 0

\* the states in which a Pairing has begun and not ended
PairingInProgress(p) == p.state \in {"AwaitM2", "AwaitPIN", "AwaitM4", "AwaitM6"}

\* initiatePair: M1 is sent and the machine waits for M2
initiatePair(attempt) ==
    [state |-> "AwaitM2", attempt |-> attempt,
     log |-> <<Logged("sendM1", 1)>>, failure |-> None, returned |-> None]

\* the credentials a successful pairing returns
PairedCredentials == Some("pairedCredentials")

\* the pairing aborted by an error
pairingFailed(p, seq, failure) ==
    [p EXCEPT !.state = "Failed", !.failure = Some(failure),
              !.log = Append(@, Logged("recv", seq))]

\* a machine that takes any message for the one it waits for
pairingStepAnySequence(p, seq, valid) ==
    CASE p.state = "AwaitM2" ->
            [p EXCEPT !.state = "AwaitPIN",
                      !.log = @ \o <<Logged("recv", seq), Logged("pinCallback", 0)>>]
      [] p.state = "AwaitM4" ->
            [p EXCEPT !.state = "AwaitM6",
                      !.log = @ \o <<Logged("recv", seq), Logged("sendM5", 5)>>]
      [] p.state = "AwaitM6" ->
            [p EXCEPT !.state = "Done", !.returned = PairedCredentials,
                      !.log = @ \o <<Logged("recv", seq), Logged("credentials", 0)>>]
      [] OTHER -> pairingFailed(p, seq, "ProtocolError")

\* one inbound CryptoPairingMessage, validated against the expected state: a
\* sequence byte that is not the expected one is a ProtocolError; M2 yields
\* the PIN callback; M4 with a proof that verifies is followed by M5; M6 with
\* a signature that verifies ends the pairing with the credentials; a proof
\* or a signature that does not verify is an AuthError
pairingStep(p, seq, valid) ==
    IF seq # Expected(p.state) THEN pairingFailed(p, seq, "ProtocolError")
    ELSE CASE p.state = "AwaitM2" ->
                 [p EXCEPT !.state = "AwaitPIN",
                           !.log = @ \o <<Logged("recv", seq),
                                          Logged("pinCallback", 0)>>]
           [] p.state = "AwaitM4" /\ valid ->
                 [p EXCEPT !.state = "AwaitM6",
                           !.log = @ \o <<Logged("recv", seq), Logged("sendM5", 5)>>]
           [] p.state = "AwaitM6" /\ valid ->
                 [p EXCEPT !.state = "Done", !.returned = PairedCredentials,
                           !.log = @ \o <<Logged("recv", seq),
                                          Logged("credentials", 0)>>]
           [] OTHER -> pairingFailed(p, seq, "AuthError")

\* the PIN callback invoked by the caller: M3 is sent with the SRP proof of
\* the PIN (whether the PIN was the right one shows in the device's M4)
enterPin(p) ==
    [p EXCEPT !.state = "AwaitM4",
              !.log = @ \o <<Logged("pin", 0), Logged("sendM3", 3)>>]

\* tv.pair(): a new Pairing of this device, and its initiatePair()
Pair ==
    /\ connState = "open"
    /\ ~PairingInProgress(pairing)
    /\ pairing.attempt < MaxPairs
    /\ pairing' = initiatePair(pairing.attempt + 1)
    /\ UNCHANGED sessionVars
    /\ UNCHANGED <<listeners, queuePollTimer, now, connState, openedAt,
                   lastInbound, emitted, nextUuid, sendCalls, outbound, keyCmds,
                   waiters>>
    /\ UNCHANGED deviceVars

\* a CryptoPairingMessage as the device receives it
PairingMessage == [type |-> "CryptoPairingMessage", payload |-> None]

\* a CryptoPairingMessage arrives while a pairing is in progress.  The device
\* emits it as any message; the pairing inspects its sequence byte.  An error
\* aborts the pairing and closes the connection.
PairingInbound(seq, valid) ==
    /\ connState = "open"
    /\ PairingInProgress(pairing)
    /\ pairing' = pairingStep(pairing, seq, valid)
    /\ lastInbound' = [kind |-> "message", message |-> Some(PairingMessage)]
    /\ LET failed == pairingStep(pairing, seq, valid).state = "Failed"
           takers == Takers(listeners, waiters, PairingMessage)
           es1 == removeTakers(emitOne(Emitter, "message"), takers)
           es2 == IF failed THEN onClose(es1) ELSE es1
       IN  /\ listeners' = es2.ls
           /\ queuePollTimer' = es2.timer
           /\ waiters' = resolveTakers(waiters, takers)
           /\ emitted' = IF failed THEN onMessage(PairingMessage) \o closeEvents
                         ELSE onMessage(PairingMessage)
           /\ connState' = IF failed THEN "closed" ELSE connState
           /\ callbacks' = IF failed THEN rejectPending(callbacks) ELSE callbacks
           /\ opens' = IF failed THEN rejectOpens(opens, "closed") ELSE opens
    /\ UNCHANGED <<callerCredentials, credentials, pairingId, writeCount>>
    /\ UNCHANGED <<now, openedAt, nextUuid, sendCalls, outbound, keyCmds>>
    /\ UNCHANGED deviceVars

\* the caller invokes the PIN callback it was handed
EnterPin ==
    /\ connState = "open"
    /\ pairing.state = "AwaitPIN"
    /\ pairing' = enterPin(pairing)
    /\ UNCHANGED sessionVars
    /\ UNCHANGED <<listeners, queuePollTimer, now, connState, openedAt,
                   lastInbound, emitted, nextUuid, sendCalls, outbound, keyCmds,
                   waiters>>
    /\ UNCHANGED deviceVars

\* waitForSequence gives up: no message of the awaited sequence came in time
PairingTimeout ==
    /\ Expected(pairing.state) # 0
    /\ pairing' = [pairing EXCEPT !.state = "Failed",
                                  !.failure = Some("TimeoutError")]
    /\ UNCHANGED sessionVars
    /\ UNCHANGED <<listeners, queuePollTimer, now, connState, openedAt,
                   lastInbound, emitted, nextUuid, sendCalls, outbound, keyCmds,
                   waiters>>
    /\ UNCHANGED deviceVars

NextPair ==
    \/ ConnectionOpened
    \/ CloseConnection
    \/ Pair
    \/ \E seq \in PairingSeqs, valid \in BOOLEAN : PairingInbound(seq, valid)
    \/ EnterPin
    \/ PairingTimeout

SpecPair == Init /\ [][NextPair]_vars

----------------------------------------------------------------------------
(* Polling over time *)

NextPoll ==
    \/ \E e \in PollEvents, f \in UserFns : On(e, f)
    \/ \E e \in PollEvents, f \in UserFns : RemoveListener(e, f)
    \/ ConnectionOpened
    \/ CloseConnection
    \/ PollTick
    \/ \E i \in 1..Len(sendCalls) : PollLoadDone(i)
    \/ AdvanceClock(MaxTime)

SpecPoll == Init /\ [][NextPoll]_vars

----------------------------------------------------------------------------
(* messageOfType *)

\* messageOfType(type, timeout): a timer for the timeout, a listener on 'message'
MessageOfType(type, timeout) ==
    /\ Len(waiters) < MaxWaiters
    /\ waiters' = Append(waiters,
          [type |-> type, timeout |-> timeout, deadline |-> now + timeout,
           state |-> "pending", settledAt |-> 0, timerFired |-> FALSE])
    /\ LET es == addListener(Emitter, "message", WaiterListener(Len(waiters) + 1))
       IN  /\ listeners' = es.ls
           /\ queuePollTimer' = es.timer
    /\ UNCHANGED <<sessionVars, pairing>>
    /\ UNCHANGED <<now, connState, openedAt, lastInbound, emitted, nextUuid,
                   sendCalls, outbound, keyCmds>>
    /\ UNCHANGED deviceVars

\* a timeout callback that leaves the listener registered
onTimeoutKeepsListener(es, i) == es

\* the timeout callback of messageOfType, after reject(...):
\* that.removeListener('message', listener)
onTimeout(es, i) == removeListener(es, "message", WaiterFns[i])

\* the timeout of waiter i fires
TimeoutFire(i) ==
    /\ i \in 1..Len(waiters)
    /\ ~waiters[i].timerFired
    /\ waiters[i].deadline <= now
    /\ waiters' = [waiters EXCEPT
                      ![i] = [settle(@, "rejected") EXCEPT !.timerFired = TRUE]]
    /\ LET es == onTimeout(Emitter, i)
       IN  /\ listeners' = es.ls
           /\ queuePollTimer' = es.timer
    /\ UNCHANGED <<sessionVars, pairing>>
    /\ UNCHANGED <<now, connState, openedAt, lastInbound, emitted, nextUuid,
                   sendCalls, outbound, keyCmds>>
    /\ UNCHANGED deviceVars

NextWait ==
    \/ \E t \in MsgTypes, d \in {1, MaxTimeout} : MessageOfType(t, d)
    \/ \E i \in 1..Len(waiters) : TimeoutFire(i)
    \/ \E m \in TypedMessages : Receive(m)
    \/ \E f \in UserFns : On("message", f)
    \/ ConnectionOpened
    \/ AdvanceClock(MaxWaitTime)

SpecWait == Init /\ [][NextWait]_vars

----------------------------------------------------------------------------
(* The fan-out of inbound messages *)

NextFanout ==
    \/ \E m \in Messages : Receive(m)
    \/ ConnectionOpened
    \/ CloseConnection

SpecFanout == Init /\ [][NextFanout]_vars

----------------------------------------------------------------------------
(* Claims about the polling timer *)

TimerRunning == queuePollTimer # None

\* C1: after any sequence of on, once, removeListener and removeAllListeners
\* the polling timer runs if and only if 'nowPlaying' and 'supportedCommands'
\* have at least one listener between them.
C1_TimerIffSubscribers == TimerRunning <=> pollListenerCount(listeners) >= 1

\* C2: once the connection has been closed no polling timer runs, even with
\* 'nowPlaying' or 'supportedCommands' listeners registered.
C2_ClosedStopsTimer == connState = "closed" => ~TimerRunning

\* the polling requests the ticks of the running timer have made
PollCallsSince(start) ==
    {i \in 1..Len(sendCalls) :
        sendCalls[i].owner = PollOwner /\ sendCalls[i].at > start}

PollCalls == {i \in 1..Len(sendCalls) : sendCalls[i].owner = PollOwner}

PollFramesSince(start) ==
    {j \in 1..Len(outbound) : outbound[j].call \in PollCallsSince(start)}

\* the connection has been open ever since the running timer was started
OpenSinceTimerStart ==
    /\ TimerRunning
    /\ isOpen
    /\ openedAt <= queuePollTimer[1].start

IsPollRequest(frame) ==
    /\ frame.type = "PlaybackQueueRequestMessage"
    /\ frame.waitForResponse = FALSE
    /\ frame.body.location = 0
    /\ frame.body.length = 100
    /\ frame.body.artworkWidth = -1
    /\ frame.body.artworkHeight = 368

C3_State ==
    /\ pollListenerCount(listeners) >= 1 <=> TimerRunning
    /\ (OpenSinceTimerStart /\ NoTimerDue) =>
          LET start == queuePollTimer[1].start
              loading == {i \in PollCallsSince(start) : sendCalls[i].st = "loading"}
          IN  /\ Cardinality(PollCallsSince(start)) = (now - start) \div PollInterval
              /\ Cardinality(PollFramesSince(start)) + Cardinality(loading)
                    = (now - start) \div PollInterval
    /\ \A j \in 1..Len(outbound) :
          outbound[j].call \in PollCalls => IsPollRequest(outbound[j])
    /\ \A i, j \in PollCalls :
          i # j => sendCalls[i].body.requestID # sendCalls[j].body.requestID

\* C3: with the connection open since the first 'nowPlaying' or
\* 'supportedCommands' listener was added, one PlaybackQueueRequestMessage is
\* requested per elapsed 5 seconds (2 after 12 seconds), each handed to the
\* connection once its schema is loaded; with no such listener left no tick
\* requests another.
C3_OnePollPerInterval ==
    /\ []C3_State
    /\ [][pollListenerCount(listeners) = 0 => PollCalls' = PollCalls]_vars

\* 12 seconds after subscribing on an open connection two requests are out
C3_Witness ==
    /\ OpenSinceTimerStart
    /\ now - queuePollTimer[1].start = 12
    /\ Cardinality(PollFramesSince(queuePollTimer[1].start)) = 2

----------------------------------------------------------------------------
(* Claims about key commands *)

\* the sendMessage calls of key command k, in call order
KeyCallsOf(k) ==
    SelectSeq([i \in 1..Len(sendCalls) |-> [sendCalls[i] EXCEPT !.at = i]],
              LAMBDA c : c.owner = KeyOwner(k))

\* the index of the n-th sendMessage call of key command k
KeyCall(k, n) == KeyCallsOf(k)[n].at

\* the frame connection.send was given for call i
FrameOf(i) == CHOOSE j \in 1..Len(outbound) : outbound[j].call = i

IsSent(i) == sendCalls[i].st = "sent"

\* a uint16 read from two bytes of a buffer, high byte first; off counts from 0
ReadUInt16BE(bytes, off) == 256 * bytes[off + 1] + bytes[off + 2]
\* the same, low byte first
ReadUInt16LE(bytes, off) == bytes[off + 1] + 256 * bytes[off + 2]

\* where sendKeyPress puts (usePage, usage, down)
HidPage(call) == ReadUInt16BE(call.body.hidEventData, 43)
HidUsage(call) == ReadUInt16BE(call.body.hidEventData, 45)
HidDown(call) == ReadUInt16BE(call.body.hidEventData, 47)

KeyCmdOrdered(k) ==
    LET cmd == keyCmds[k]
        n == Len(KeyCallsOf(k))
        press == sendCalls[KeyCall(k, 1)]
        release == sendCalls[KeyCall(k, 2)]
    IN  /\ n \in 1..2
        /\ \A c \in 1..n : sendCalls[KeyCall(k, c)].type = "SendHIDEventMessage"
        /\ HidDown(press) = 1
        /\ cmd.args.hold <=> cmd.key = Some("HomeHold")
        /\ n = 2 =>
              /\ HidDown(release) = 0
              /\ HidPage(release) = HidPage(press)
              /\ HidUsage(release) = HidUsage(press)
              /\ IsSent(KeyCall(k, 1))
              /\ release.at = outbound[FrameOf(KeyCall(k, 1))].at
                                + (IF cmd.key = Some("HomeHold") THEN 1 ELSE 0)
        /\ (n = 1 /\ IsSent(KeyCall(k, 1))) =>
              /\ cmd.key = Some("HomeHold")
              /\ now <= outbound[FrameOf(KeyCall(k, 1))].at + 1
        /\ cmd.pc = "resolved" <=> (n = 2 /\ IsSent(KeyCall(k, 2)))

\* C6: a sendKeyCommand for a defined key submits two SendHIDEventMessage
\* frames, down=1 then down=0 for the same (usePage, usage); the second is
\* submitted only once the send of the first has resolved, one second later for
\* HomeHold and at once for every other key, and the promise resolves only once
\* the send of the second has resolved.
C6_PressThenRelease ==
    \A k \in 1..Len(keyCmds) : keyCmds[k].key # None => KeyCmdOrdered(k)

C6_Witness ==
    \E k \in 1..Len(keyCmds) :
        /\ keyCmds[k].key = Some("HomeHold")
        /\ keyCmds[k].pc = "resolved"
        /\ Len(KeyCallsOf(k)) = 2

\* the (usagePage, usageId) table of the key commands, hold only for HomeHold
KeyTable ==
    [k \in Keys |->
        CASE k = "Up"         -> <<1, 140>>     \* 0x8C
          [] k = "Down"       -> <<1, 141>>     \* 0x8D
          [] k = "Left"       -> <<1, 139>>     \* 0x8B
          [] k = "Right"      -> <<1, 138>>     \* 0x8A
          [] k = "Menu"       -> <<1, 134>>     \* 0x86
          [] k = "Select"     -> <<1, 137>>     \* 0x89
          [] k = "Suspend"    -> <<1, 130>>     \* 0x82
          [] k = "WakeUp"     -> <<1, 131>>     \* 0x83
          [] k = "Play"       -> <<12, 176>>    \* 0xB0
          [] k = "Pause"      -> <<12, 177>>    \* 0xB1
          [] k = "Next"       -> <<12, 181>>    \* 0xB5
          [] k = "Previous"   -> <<12, 182>>    \* 0xB6
          [] k = "Topmenu"    -> <<12, 96>>     \* 0x60
          [] k = "Home"       -> <<12, 64>>     \* 0x40
          [] k = "HomeHold"   -> <<12, 64>>     \* 0x40
          [] k = "VolumeUp"   -> <<12, 233>>    \* 0xE9
          [] k = "VolumeDown" -> <<12, 234>>]   \* 0xEA

\* C7: sendKeyCommand sends every key of the enum with the (usagePage, usageId)
\* of the table, and holds for HomeHold only.
C7_KeyTable ==
    \A k \in 1..Len(keyCmds) :
        keyCmds[k].key # None =>
            /\ keyCmds[k].args.usePage = KeyTable[keyCmds[k].key[1]][1]
            /\ keyCmds[k].args.usage = KeyTable[keyCmds[k].key[1]][2]
            /\ keyCmds[k].args.hold = (keyCmds[k].key[1] = "HomeHold")
            /\ \A c \in 1..Len(KeyCallsOf(k)) :
                  /\ HidPage(KeyCallsOf(k)[c]) = KeyTable[keyCmds[k].key[1]][1]
                  /\ HidUsage(KeyCallsOf(k)[c]) = KeyTable[keyCmds[k].key[1]][2]

C7_Witness ==
    \E k \in 1..Len(keyCmds) :
        /\ keyCmds[k].key = Some("VolumeDown")
        /\ keyCmds[k].pc = "resolved"

\* the bytes of a buffer from offset lo up to, not including, offset hi
Slice(bytes, lo, hi) == SubSeq(bytes, lo + 1, hi)

HidStub == <<67, 137, 34, 207, 8, 2, 0, 0>>   \* 43 89 22 CF 08 02 00 00

HidCalls == {i \in 1..Len(sendCalls) : sendCalls[i].type = "SendHIDEventMessage"}

\* the direction call i was made for: the first call of a command is the press
IsPressCall(i) == KeyCall(sendCalls[i].owner.id, 1) = i

\* C8 as stated: hidEventData is 44 bytes long, starts with the stub and
\* carries usagePage, usageId and down as little-endian uint16 at offsets 30..35
C8_Hid44LittleEndian ==
    \A i \in HidCalls :
        LET data == sendCalls[i].body.hidEventData
            cmd == keyCmds[sendCalls[i].owner.id]
        IN  /\ Len(data) = 44
            /\ Slice(data, 0, 8) = HidStub
            /\ ReadUInt16LE(data, 30) = cmd.args.usePage
            /\ ReadUInt16LE(data, 32) = cmd.args.usage
            /\ ReadUInt16LE(data, 34) = (IF IsPressCall(i) THEN 1 ELSE 0)

\* C8, amended: hidEventData is 60 bytes long, starts with the stub and carries
\* usagePage, usageId and down as big-endian uint16 at offsets 43..48 (Menu:
\* 00 01 00 86 00 01 on press, 00 01 00 86 00 00 on release); every other byte
\* is the same for every key and direction.
C8_Hid60BigEndian ==
    /\ \A i \in HidCalls :
        LET data == sendCalls[i].body.hidEventData
            cmd == keyCmds[sendCalls[i].owner.id]
        IN  /\ Len(data) = 60
            /\ Slice(data, 0, 8) = HidStub
            /\ ReadUInt16BE(data, 43) = cmd.args.usePage
            /\ ReadUInt16BE(data, 45) = cmd.args.usage
            /\ ReadUInt16BE(data, 47) = (IF IsPressCall(i) THEN 1 ELSE 0)
            /\ cmd.key = Some("Menu") =>
                  Slice(data, 43, 49) = (IF IsPressCall(i)
                                         THEN <<0, 1, 0, 134, 0, 1>>
                                         ELSE <<0, 1, 0, 134, 0, 0>>)
            /\ Slice(data, 0, 43) = Slice(hidEventData(0, 0, FALSE), 0, 43)
            /\ Slice(data, 49, 60) = Slice(hidEventData(0, 0, FALSE), 49, 60)

C8_Witness ==
    \E i \in HidCalls :
        /\ keyCmds[sendCalls[i].owner.id].key = Some("Menu")
        /\ ~IsPressCall(i)
        /\ IsSent(i)

\* C9: a sendKeyCommand made before the connection is open, or with the key
\* of an unknown name, throws a UsageError and sends nothing.
C9_UsageError ==
    \A k \in 1..Len(keyCmds) :
        (keyCmds[k].key = None \/ ~keyCmds[k].openAtCall) =>
            /\ keyCmds[k].returned = "throws"
            /\ Len(KeyCallsOf(k)) = 0

----------------------------------------------------------------------------
(* Claims about the fan-out of inbound messages *)

\* the values the device emitted under an event name for the last inbound
EmittedAs(event) ==
    SelectSeq(emitted, LAMBDA ev : ev.event = event)

Handled(type) ==
    /\ lastInbound.kind = "message"
    /\ lastInbound.message[1].type = type

\* C4: for an inbound SetStateMessage whose payload is null the device emits
\* one 'nowPlaying' event with the value null, and neither 'supportedCommands'
\* nor 'playbackQueue'.
C4_NullPayload ==
    (Handled("SetStateMessage") /\ lastInbound.message[1].payload = None) =>
        /\ Len(EmittedAs("nowPlaying")) = 1
        /\ EmittedAs("nowPlaying")[1].value = None
        /\ Len(EmittedAs("supportedCommands")) = 0
        /\ Len(EmittedAs("playbackQueue")) = 0

C4_Witness ==
    /\ Handled("SetStateMessage")
    /\ lastInbound.message[1].payload = None
    /\ Len(emitted) = 2

\* the list a 'supportedCommands' event carries for a payload
ExpectedCommands(payload) ==
    LET inner == payload.supportedCommands[1].supportedCommands
        raw == IF inner = None THEN <<>> ELSE inner[1]
    IN  [i \in 1..Len(raw) |->
            [command  |-> raw[i].command,
             enabled  |-> (raw[i].enabled = "true"),
             canScrub |-> (raw[i].canScrub = "true")]]

\* C5: for an inbound SetStateMessage with a payload the device emits
\* 'nowPlaying' iff nowPlayingInfo is there, 'supportedCommands' iff
\* supportedCommands is there (enabled and canScrub false unless set, no inner
\* list an empty list) and 'playbackQueue' iff playbackQueue is there, each at
\* most once; for a message of another type it emits none of the three.
C5_FanOut ==
    /\ (Handled("SetStateMessage") /\ lastInbound.message[1].payload # None) =>
          LET payload == lastInbound.message[1].payload[1]
          IN  /\ Len(EmittedAs("nowPlaying"))
                    = (IF payload.nowPlayingInfo # None THEN 1 ELSE 0)
              /\ \A i \in 1..Len(EmittedAs("nowPlaying")) :
                    EmittedAs("nowPlaying")[i].value # None
              /\ Len(EmittedAs("supportedCommands"))
                    = (IF payload.supportedCommands # None THEN 1 ELSE 0)
              /\ \A i \in 1..Len(EmittedAs("supportedCommands")) :
                    EmittedAs("supportedCommands")[i].value = ExpectedCommands(payload)
              /\ Len(EmittedAs("playbackQueue"))
                    = (IF payload.playbackQueue # None THEN 1 ELSE 0)
              /\ \A i \in 1..Len(EmittedAs("playbackQueue")) :
                    EmittedAs("playbackQueue")[i].value = payload.playbackQueue
    /\ (lastInbound.kind = "message" /\ ~Handled("SetStateMessage")) =>
          /\ Len(EmittedAs("nowPlaying")) = 0
          /\ Len(EmittedAs("supportedCommands")) = 0
          /\ Len(EmittedAs("playbackQueue")) = 0

\* a payload with all three parts, its command with neither enabled nor
\* canScrub set, has been fanned out into three events
C5_Witness ==
    /\ Handled("SetStateMessage")
    /\ lastInbound.message[1].payload # None
    /\ Len(emitted) = 4
    /\ EmittedAs("supportedCommands")[1].value
          = <<[command |-> "Play", enabled |-> FALSE, canScrub |-> FALSE]>>
    /\ lastInbound.message[1].payload[1].supportedCommands[1].supportedCommands[1][1].enabled
          = "undefined"

----------------------------------------------------------------------------
(* Claims about messageOfType *)

TimedOut(i) == waiters[i].state = "rejected"

C10_State ==
    \A i \in 1..Len(waiters) :
        /\ waiters[i].state = "pending" => now <= waiters[i].deadline
        /\ TimedOut(i) =>
              /\ waiters[i].settledAt = waiters[i].deadline
              /\ ~WaiterRegistered(listeners, i)

C10_Step ==
    /\ \A i \in 1..Len(waiters) :
          TimedOut(i) => /\ waiters'[i] = waiters[i]
                         /\ ~WaiterRegistered(listeners', i)
    /\ \A m \in TypedMessages :
          (/\ \E i \in 1..Len(waiters) : waiters[i].type = m.type /\ TimedOut(i)
           /\ \A i \in 1..Len(waiters) : waiters[i].type = m.type => TimedOut(i)
           /\ Receive(m))
          => (listeners' = listeners /\ waiters' = waiters)

\* C10: a messageOfType whose message does not come within the timeout is
\* rejected when the timeout elapses, and its 'message' listener is removed: a
\* message of the type that comes later changes neither the promise nor the
\* listeners of the device.
C10_TimeoutRemovesListener == []C10_State /\ [][C10_Step]_vars

\* a message of the awaited type has been handled after the timeout
C10_Witness ==
    /\ Len(waiters) >= 1
    /\ TimedOut(1)
    /\ Handled(waiters[1].type)
    /\ now > waiters[1].deadline

----------------------------------------------------------------------------
(* Claims about openConnection *)

\* the sendMessage calls open call o made, in call order
OpenCalls(o) ==
    SelectSeq([i \in 1..Len(sendCalls) |-> i],
              LAMBDA i : sendCalls[i].owner = OpenOwner(o))

\* the messages of an openConnection with credentials, in the order of the claim
OpenSteps ==
    <<[type |-> "DeviceInfoMessage", body |-> None],
      [type |-> "CryptoPairingMessage", body |-> Some([state |-> "M1"])],
      [type |-> "CryptoPairingMessage", body |-> Some([state |-> "M3"])],
      [type |-> "SetConnectionStateMessage", body |-> Some([state |-> "Connected"])],
      [type |-> "ClientUpdatesConfigMessage", body |-> Some(UpdatesConfig)]>>

\* call is step n of OpenSteps; the body of the introduction is not looked at
IsStep(call, n) ==
    /\ call.type = OpenSteps[n].type
    /\ OpenSteps[n].body # None => Some(call.body) = OpenSteps[n].body

\* the response to call i has been received
Answered(i) ==
    \E c \in 1..Len(callbacks) :
        callbacks[c].call = i /\ callbacks[c].state = "resolved"

\* call i has resolved: handed to the connection and, if waited for, answered
HasResolved(i) ==
    /\ IsSent(i)
    /\ sendCalls[i].waitForResponse => Answered(i)

\* the frame of call i was written under the keys of verification o
UnderKeysOf(i, o) ==
    /\ outbound[FrameOf(i)].encrypted
    /\ outbound[FrameOf(i)].credentials[1].writeKey = SessionKeys(o).writeKey

\* the steps of open call o come in the order of OpenSteps, each after the
\* one before it has resolved and none before the transport has connected
C11_InOrder(o) ==
    LET calls == OpenCalls(o)
    IN  /\ Len(calls) <= Len(OpenSteps)
        /\ calls # <<>> => opens[o].pc # "connecting"
        /\ \A n \in 1..Len(calls) :
              /\ IsStep(sendCalls[calls[n]], n)
              /\ n > 1 => HasResolved(calls[n - 1])
        /\ opens[o].pc = "resolved" =>
              Len(calls) = Len(OpenSteps) /\ HasResolved(calls[Len(OpenSteps)])

\* the introduction of open call o is written in plaintext
C11_PlainIntroduction(o) ==
    \A n \in 1..Len(OpenCalls(o)) :
        LET i == OpenCalls(o)[n]
        IN  sendCalls[i].type = "DeviceInfoMessage" /\ IsSent(i) =>
               ~outbound[FrameOf(i)].encrypted

\* SetConnectionState and ClientUpdatesConfig are written under the keys of
\* the verification of open call o
C11_StateAfterKeys(o) ==
    \A n \in 1..Len(OpenCalls(o)) :
        LET i == OpenCalls(o)[n]
        IN  /\ sendCalls[i].type \in {"SetConnectionStateMessage",
                                       "ClientUpdatesConfigMessage"}
            /\ IsSent(i)
            => UnderKeysOf(i, o)

\* C11: openConnection(credentials) with credentials connects, sends the
\* introduction in plaintext and receives its response, verifies, sends
\* SetConnectionState, then ClientUpdatesConfig, each step after the one before
\* it has resolved; it resolves after ClientUpdatesConfig has, and neither
\* SetConnectionState nor ClientUpdatesConfig is sent before the session keys
\* are set.
C11_OpenInOrder ==
    \A o \in 1..Len(opens) :
        opens[o].credentials # None =>
            /\ C11_InOrder(o)
            /\ C11_PlainIntroduction(o)
            /\ C11_StateAfterKeys(o)

\* C12: openConnection() without credentials sends the introduction in
\* plaintext and nothing else, and resolves once its response is received.
C12_IntroductionOnly ==
    \A o \in 1..Len(opens) :
        opens[o].credentials = None =>
            LET calls == OpenCalls(o)
            IN  /\ Len(calls) <= 1
                /\ \A n \in 1..Len(calls) :
                      /\ sendCalls[calls[n]].type = "DeviceInfoMessage"
                      /\ IsSent(calls[n]) => ~outbound[FrameOf(calls[n])].encrypted
                /\ opens[o].verified = "no"
                /\ opens[o].pc = "resolved" <=>
                      (calls # <<>> /\ Answered(calls[1]))

\* an openConnection has completed or failed
OpenSettled(o) == opens[o].pc \in {"resolved", "rejected"}

\* C13: the caller's Credentials object is as it was once openConnection has
\* completed or failed.
C13_CredentialsByValue ==
    \A o \in 1..Len(opens) : OpenSettled(o) => callerCredentials = StoredCredentials

\* the device holds session keys
DeviceHoldsKeys ==
    /\ deviceCredentials # None
    /\ deviceCredentials[1].readKey # None \/ deviceCredentials[1].writeKey # None

\* the long-term fields of a Credentials object
LongTerm(creds) ==
    [pairingId |-> creds.pairingId, localPrivateKey |-> creds.localPrivateKey,
     remotePeerId |-> creds.remotePeerId, remotePublicKey |-> creds.remotePublicKey]

\* C14: once the connection is closed, no openConnection being in progress,
\* the device holds no readKey or writeKey, and the long-term fields of the
\* credentials are unchanged.
C14_KeysEndWithConnection ==
    connState = "closed" /\ OpenInFlight = 0 =>
        /\ ~DeviceHoldsKeys
        /\ LongTerm(callerCredentials) = LongTerm(StoredCredentials)

\* a key command for Menu whose press and release have been sent
MenuSent(k) ==
    /\ keyCmds[k].key = Some("Menu")
    /\ keyCmds[k].pc = "resolved"

PressFrame(k) == FrameOf(KeyCall(k, 1))
ReleaseFrame(k) == FrameOf(KeyCall(k, 2))

\* C17 as stated: after openConnection(credentials) has resolved, the two
\* frames of sendKeyCommand(Key.Menu) are encrypted with write counters 0 and 1.
C17_Counters01 ==
    \A k \in 1..Len(keyCmds) :
        MenuSent(k) =>
            /\ outbound[PressFrame(k)].encrypted
            /\ outbound[PressFrame(k)].counter = Some(0)
            /\ outbound[ReleaseFrame(k)].encrypted
            /\ outbound[ReleaseFrame(k)].counter = Some(1)

\* the frame of the M3 of open call o, 0 when it has not been sent
M3Frame(o) ==
    LET hit == {j \in 1..Len(outbound) :
                   /\ sendCalls[outbound[j].call].owner = OpenOwner(o)
                   /\ outbound[j].type = "CryptoPairingMessage"
                   /\ outbound[j].body = [state |-> "M3"]}
    IN  IF hit = {} THEN 0 ELSE CHOOSE j \in hit : TRUE

\* the press and the release of key command k are the next frames sent after
\* those of open call o, which has resolved: since its verification only
\* openConnection itself has sent
FirstAfterOpen(k, o) ==
    /\ opens[o].pc = "resolved"
    /\ opens[o].credentials # None
    /\ M3Frame(o) # 0
    /\ M3Frame(o) < PressFrame(k) - 1
    /\ outbound[PressFrame(k) - 1].type = "ClientUpdatesConfigMessage"
    /\ ReleaseFrame(k) = PressFrame(k) + 1
    /\ \A j \in (M3Frame(o) + 1)..(PressFrame(k) - 1) :
          sendCalls[outbound[j].call].owner = OpenOwner(o)

\* C17, amended: when the press and the release of Key.Menu are the next
\* frames sent after the SetConnectionState and the ClientUpdatesConfig of an
\* openConnection(credentials) that has resolved, they are encrypted under its
\* session keys with write counters 2 and 3.
C17_Counters23 ==
    \A k \in 1..Len(keyCmds), o \in 1..Len(opens) :
        MenuSent(k) /\ FirstAfterOpen(k, o) =>
            /\ UnderKeysOf(KeyCall(k, 1), o)
            /\ outbound[PressFrame(k)].counter = Some(2)
            /\ UnderKeysOf(KeyCall(k, 2), o)
            /\ outbound[ReleaseFrame(k)].counter = Some(3)

C17_Witness ==
    \E k \in 1..Len(keyCmds), o \in 1..Len(opens) :
        /\ MenuSent(k)
        /\ FirstAfterOpen(k, o)
        /\ outbound[ReleaseFrame(k)].counter = Some(3)

\* an openConnection whose verification has failed has rejected
C19_State ==
    \A o \in 1..Len(opens) :
        opens[o].verified = "failed" =>
            opens[o].pc = "rejected" /\ opens[o].failure = "AuthError"

\* the step in which a verification fails leaves the connection closed
C19_Step ==
    \A o \in 1..Len(opens) :
        opens[o].verified # "failed" /\ opens'[o].verified = "failed" =>
            connState = "open" /\ connState' = "closed"

\* C19: when the verification fails during openConnection(credentials),
\* openConnection rejects and the connection is closed.
C19_FailedVerifyCloses == []C19_State /\ [][C19_Step]_vars

C19_Witness ==
    \E o \in 1..Len(opens) :
        /\ opens[o].verified = "failed"
        /\ opens[o].pc = "rejected"
        /\ connState = "closed"

----------------------------------------------------------------------------
(* Claims about sends and their responses *)

\* the sendMessage calls of the caller
UserCalls == {i \in 1..Len(sendCalls) : sendCalls[i].owner.kind = "user"}

\* the pending callbacks call i has been given
CallbacksOf(i) == {c \in 1..Len(callbacks) : callbacks[c].call = i}

\* every waited send that was handed over has one waiter, the identifiers of
\* the waiters differ, and a waiter that has resolved holds a response that
\* carries its own identifier
C15_State ==
    /\ \A i \in UserCalls :
          sendCalls[i].waitForResponse /\ IsSent(i) =>
              /\ Cardinality(CallbacksOf(i)) = 1
              /\ outbound[FrameOf(i)].identifier
                    = Some(callbacks[CHOOSE c \in CallbacksOf(i) : TRUE].identifier)
    /\ \A c, d \in 1..Len(callbacks) :
          c # d => callbacks[c].identifier # callbacks[d].identifier
    /\ \A c \in 1..Len(callbacks) :
          callbacks[c].state = "resolved" =>
              /\ callbacks[c].response # None
              /\ callbacks[c].response[1].identifier = callbacks[c].identifier

\* the waiters a step resolves
Resolving ==
    {c \in 1..Len(callbacks) :
        callbacks[c].state = "pending" /\ callbacks'[c].state = "resolved"}

\* one inbound message resolves at most one waiter, with itself
C15_Step ==
    /\ Cardinality(Resolving) <= 1
    /\ \A c \in Resolving :
          callbacks'[c].response = Some([message |-> lastInbound'.message[1],
                                         identifier |-> callbacks[c].identifier])

\* C15: of two concurrent waited sends each resolves with the response that
\* carries its own identifier, whatever the order of the responses; no
\* response resolves more than one waiter, none a waiter of another identifier.
C15_OwnResponse == []C15_State /\ [][C15_Step]_vars

\* two waited sends answered in reverse order
C15_Witness ==
    /\ Len(callbacks) >= 2
    /\ callbacks[1].state = "resolved" /\ callbacks[1].order = 2
    /\ callbacks[2].state = "resolved" /\ callbacks[2].order = 1
    /\ sendCalls[callbacks[1].call].owner.kind = "user"
    /\ sendCalls[callbacks[2].call].owner.kind = "user"

\* C16: the frames are handed to the connection in the order of the
\* sendMessage calls.
C16_Fifo ==
    \A j, k \in 1..Len(outbound) :
        j < k => outbound[j].call < outbound[k].call

\* the 'close' events among the events of the last step
CloseEvents == SelectSeq(emitted, LAMBDA e : e.event = "close")

\* while the connection is closed the last thing the device emitted is one
\* 'close', and no waiter is pending past its deadline
C18_State ==
    /\ connState = "closed" =>
          /\ lastInbound.kind = "close"
          /\ Len(CloseEvents) = 1
          /\ Len(emitted) = 1
    /\ \A c \in 1..Len(callbacks) :
          callbacks[c].state = "pending" => now <= callbacks[c].deadline

\* the step that closes the connection rejects every pending waiter
C18_Step ==
    connState = "open" /\ connState' = "closed" =>
        \A c \in 1..Len(callbacks) :
            callbacks[c].state = "pending" => callbacks'[c].state = "rejected"

\* C18: when the connection closes every pending waited send is rejected,
\* the device emits one 'close', and nothing more from that connection.
C18_CloseRejectsAll == []C18_State /\ [][C18_Step]_vars

C18_Witness ==
    /\ connState = "closed"
    /\ emitted = <<Event("close", None)>>
    /\ \E c \in 1..Len(callbacks) : callbacks[c].state = "rejected"

----------------------------------------------------------------------------
(* Claims about pairing *)

\* the places of the log where ev was logged
LoggedAt(ev) == {n \in 1..Len(pairing.log) : pairing.log[n].ev = ev}

\* the places of the log where a message of sequence seq was received
ReceivedAt(seq) ==
    {n \in 1..Len(pairing.log) :
        pairing.log[n].ev = "recv" /\ pairing.log[n].seq = seq}

\* every a in the log has a b before it
Follows(as, bs) == \A n \in as : \E m \in bs : m < n

\* the PIN callback comes after M2, M3 after the PIN, the credentials after
\* M6 and only when the machine is done
C20_State ==
    /\ pairing.state \in PairingStates
    /\ Follows(LoggedAt("pinCallback"), ReceivedAt(2))
    /\ Follows(LoggedAt("sendM3"), LoggedAt("pin"))
    /\ Follows(LoggedAt("pin"), LoggedAt("pinCallback"))
    /\ Follows(LoggedAt("credentials"), ReceivedAt(6))
    /\ (pairing.returned # None \/ LoggedAt("credentials") # {}) =>
          /\ pairing.state = "Done"
          /\ pairing.returned = PairedCredentials
          /\ ReceivedAt(6) # {}

\* the steps of one machine
PairingAdvance ==
    {<<"AwaitM2", "AwaitPIN">>, <<"AwaitPIN", "AwaitM4">>,
     <<"AwaitM4", "AwaitM6">>, <<"AwaitM6", "Done">>}

\* the step is the inspection of an inbound message
Inspects ==
    /\ pairing'.attempt = pairing.attempt
    /\ Len(pairing'.log) > Len(pairing.log)
    /\ pairing'.log[Len(pairing.log) + 1].ev = "recv"

\* a step of the pairing starts a new machine at AwaitM2, advances the
\* machine by one state or fails it; a message of another sequence than the
\* expected one fails it with a ProtocolError
C20_Step ==
    pairing' # pairing =>
        /\ \/ /\ pairing'.attempt = pairing.attempt + 1
              /\ ~PairingInProgress(pairing)
              /\ pairing'.state = "AwaitM2"
           \/ /\ pairing'.attempt = pairing.attempt
              /\ \/ <<pairing.state, pairing'.state>> \in PairingAdvance
                 \/ PairingInProgress(pairing) /\ pairing'.state = "Failed"
        /\ Inspects =>
              LET seq == pairing'.log[Len(pairing.log) + 1].seq
              IN  seq # Expected(pairing.state) =>
                      /\ pairing'.state = "Failed"
                      /\ pairing'.failure = Some("ProtocolError")

\* C20: the pairing advances only along Idle, AwaitM2, AwaitPIN, AwaitM4,
\* AwaitM6, Done; the PIN callback is handed over after M2, M3 is sent after
\* the PIN callback is invoked, the credentials are returned in Done after
\* M6, and a message of an unexpected sequence moves the machine to Failed.
C20_PairingAdvances == []C20_State /\ [][C20_Step]_vars

\* a second pairing of the device that went through M2, the PIN, M4 and M6
\* and returned the credentials
C20_Witness ==
    /\ pairing.state = "Done"
    /\ pairing.returned = PairedCredentials
    /\ pairing.attempt = 2
    /\ LoggedAt("sendM3") # {}

----------------------------------------------------------------------------
(* Claims about the build and the service *)

\* the introductions among the sendMessage calls
Introductions ==
    {i \in 1..Len(sendCalls) :
        sendCalls[i].type = "DeviceInfoMessage" /\ sendCalls[i].owner.kind = "open"}

\* the body has field f with value v
Carries(body, f, v) == f \in DOMAIN body /\ body[f] = v

\* C21: the introduction of every build carries uniqueIdentifier = pairingId,
\* localizedModelName 'iPhone', protocolVersion 1, and supportsSystemPairing,
\* supportsSharedQueue and supportsACL true.
C21_CanonicalIntroduction ==
    \A i \in Introductions :
        /\ Carries(sendCalls[i].body, "localizedModelName", "iPhone")
        /\ Carries(sendCalls[i].body, "protocolVersion", 1)
        /\ Carries(sendCalls[i].body, "supportsSystemPairing", TRUE)
        /\ Carries(sendCalls[i].body, "supportsSharedQueue", TRUE)
        /\ Carries(sendCalls[i].body, "supportsACL", TRUE)
        /\ "uniqueIdentifier" \in DOMAIN sendCalls[i].body

\* C22: the address of the device is the second address of the service when
\* there is more than one, the first otherwise (none when there is none).
C22_SecondAddress ==
    /\ Len(service.addresses) > 1 => address = Some(service.addresses[2])
    /\ Len(service.addresses) = 1 => address = Some(service.addresses[1])
    /\ Len(service.addresses) = 0 => address = None

\* a device of a service whose first two addresses differ, its connection open
C22_Witness ==
    /\ Len(service.addresses) > 1
    /\ service.addresses[1] # service.addresses[2]
    /\ address = Some(service.addresses[2])
    /\ connState = "open"

----------------------------------------------------------------------------
(* Claims about the introduction of openConnection *)

\* the frames that are introductions of openConnection calls
IntroductionFrames ==
    {j \in 1..Len(outbound) :
        /\ outbound[j].type = "DeviceInfoMessage"
        /\ sendCalls[outbound[j].call].owner.kind = "open"}

\* the credentials handed to the connection carry a session key
CarriesKeys(creds) ==
    creds # None /\ (creds[1].readKey # None \/ creds[1].writeKey # None)

\* C23: in every openConnection, a second one after closeConnection
\* included, the introduction is handed to the connection with credentials
\* that carry no readKey and no writeKey.
C23_IntroductionWithoutKeys ==
    \A j \in IntroductionFrames : ~CarriesKeys(outbound[j].credentials)

\* the introduction of open call o, 0 when it has not been built
IntroductionOf(o) ==
    IF \E i \in Introductions : sendCalls[i].owner = OpenOwner(o)
    THEN CHOOSE i \in Introductions : sendCalls[i].owner = OpenOwner(o)
    ELSE 0

\* the uniqueIdentifier of the introduction of open call o
UniqueIdentifierOf(o) == sendCalls[IntroductionOf(o)].body.uniqueIdentifier

\* an openConnection before call o was given credentials
CredentialsBefore(o) == \E k \in 1..(o - 1) : opens[k].credentials # None

\* the introduction of an openConnection with credentials carries their
\* pairingId, that of one without credentials the pairingId of construction
C24_ConstructionPairingId ==
    \A o \in 1..Len(opens) :
        IntroductionOf(o) # 0 =>
            UniqueIdentifierOf(o) =
                IF opens[o].credentials # None THEN callerCredentials.pairingId
                ELSE GeneratedPairingId

\* C24: the introduction of an openConnection with credentials carries
\* credentials.pairingId; that of one without credentials carries the
\* pairingId the device then has: the one generated at construction, or the
\* pairingId of the credentials an earlier openConnection was given.
C24_CurrentPairingId ==
    \A o \in 1..Len(opens) :
        IntroductionOf(o) # 0 =>
            UniqueIdentifierOf(o) =
                IF opens[o].credentials # None \/ CredentialsBefore(o)
                THEN callerCredentials.pairingId
                ELSE GeneratedPairingId

\* an openConnection without credentials that follows one with credentials:
\* its introduction has been sent with the pairingId of those credentials
C24_Witness ==
    \E o \in 1..Len(opens) :
        /\ opens[o].credentials = None
        /\ CredentialsBefore(o)
        /\ IntroductionOf(o) # 0
        /\ IsSent(IntroductionOf(o))
        /\ UniqueIdentifierOf(o) = StoredCredentials.pairingId

----------------------------------------------------------------------------
(* Claims about the polling tick *)

\* the step is a tick of the polling timer
Ticks ==
    /\ queuePollTimer # None
    /\ queuePollTimer' # None
    /\ queuePollTimer'[1].due = queuePollTimer[1].due + PollInterval

\* the polling requests whose send has failed
FailedPolls == {i \in PollCalls : sendCalls[i].st = "failed"}

\* no polling request ends in a rejection that nobody handles, and the device
\* has emitted no 'error'
C25_State ==
    /\ \A i \in PollCalls : sendCalls[i].st \in {"loading", "sent", "failed"}
    /\ \A n \in 1..Len(emitted) : emitted[n].event # "error"

\* a tick requests the playback queue if and only if the connection is open;
\* the step in which a polling send fails leaves the timer and the events of
\* the device as they were
C25_Step ==
    /\ Ticks =>
          IF connState = "open"
          THEN /\ Len(sendCalls') = Len(sendCalls) + 1
               /\ sendCalls'[Len(sendCalls')].owner = PollOwner
               /\ sendCalls'[Len(sendCalls')].type = "PlaybackQueueRequestMessage"
          ELSE sendCalls' = sendCalls
    /\ PollCalls' # PollCalls => Ticks /\ connState = "open"
    /\ FailedPolls' # FailedPolls =>
          /\ queuePollTimer' = queuePollTimer
          /\ emitted' = emitted
          /\ listeners' = listeners

----------------------------------------------------------------------------
(* Claims about the message a messageOfType resolves with *)

Resolved(i) == waiters[i].state = "resolved"

\* a waiter that has resolved did so by its deadline, and its listener is gone
C26_State ==
    \A i \in 1..Len(waiters) :
        /\ waiters[i].state \in {"pending", "resolved", "rejected"}
        /\ Resolved(i) =>
              /\ waiters[i].settledAt <= waiters[i].deadline
              /\ ~WaiterRegistered(listeners, i)

\* a waiter settles once; the step that handles a message resolves the
\* pending waiters of its type, which are the ones no earlier message of the
\* type has come for, and leaves the pending waiters of another type pending;
\* no other step resolves a waiter
C26_Step ==
    /\ \A i \in 1..Len(waiters) :
          waiters[i].state # "pending" =>
              /\ waiters'[i].state = waiters[i].state
              /\ waiters'[i].settledAt = waiters[i].settledAt
    /\ \A m \in TypedMessages :
          Receive(m) =>
              \A i \in 1..Len(waiters) :
                  waiters[i].state = "pending" =>
                      IF waiters[i].type = m.type
                      THEN /\ waiters'[i].state = "resolved"
                           /\ lastInbound'.message = Some(m)
                           /\ ~WaiterRegistered(listeners', i)
                      ELSE /\ waiters'[i] = waiters[i]
                           /\ WaiterRegistered(listeners', i)
    /\ \A i \in 1..Len(waiters) :
          (waiters[i].state = "pending" /\ waiters'[i].state = "resolved") =>
              \E m \in TypedMessages : m.type = waiters[i].type /\ Receive(m)

\* C26: messageOfType resolves with the first inbound message of the type
\* that comes before the timeout; messages of other types leave it pending;
\* the promise settles once, and once resolved its listener is not registered.
C26_FirstOfType == []C26_State /\ [][C26_Step]_vars

\* a waiter resolved by a message that came after some time; its timeout has
\* fired since and has changed nothing
C26_Witness ==
    /\ Len(waiters) >= 1
    /\ Resolved(1)
    /\ waiters[1].settledAt > 0
    /\ now > waiters[1].deadline
    /\ waiters[1].timerFired

----------------------------------------------------------------------------
(* Claims about AppleTV.key *)

\* the lower-case name of each member of the Key enum
LowerCaseName ==
    [Up |-> "up", Down |-> "down", Left |-> "left", Right |-> "right",
     Menu |-> "menu", Play |-> "play", Pause |-> "pause", Next |-> "next",
     Previous |-> "previous", Suspend |-> "suspend", Select |-> "select",
     Topmenu |-> "topmenu", WakeUp |-> "wakeup", VolumeUp |-> "volumeup",
     VolumeDown |-> "volumedown", Home |-> "home", HomeHold |-> "homehold"]

\* C27: AppleTV.key gives every member of the Key enum for its lower-case
\* name, so that every key sendKeyCommand is given can be had from its name,
\* and no key for any other string.
C27_KeyOfName ==
    /\ \A c \in 1..Len(keyCmds) :
          keyCmds[c].key # None =>
              key(LowerCaseName[keyCmds[c].key[1]]) = keyCmds[c].key
    /\ \A name \in KeyNames :
          (\A k \in Keys : name # LowerCaseName[k]) => key(name) = None

====
